---------------------------- MODULE Spec2Model ----------------------------
(***************************************************************************)
(* Five-horse: the rule engine (board topology, legal-move generation with *)
(* slides and cascading captures, win evaluation), the search (evaluate,   *)
(* getBestMove, minimax, simulateMove) and the page component's session,    *)
(* as state machines.                                                      *)
(*                                                                         *)
(* Spec        plays legal moves from the initial layout, in the order the *)
(*             search walks the game tree (checkWinCondition, then         *)
(*             getValidMoves for a piece of the side to move, then         *)
(*             simulateMove).                                              *)
(* SpecEngine  calls the pure engine functions on every position that      *)
(*             places black, white or nothing on each node of Region.      *)
(* SpecSearch  runs getBestMove step by step, one frame per call.          *)
(* SpecOrder   calls getValidMoves on the positions around two centres.    *)
(* SpecSession runs the page component: clicks, undo, reset and the timed  *)
(*             playback of executeMove.                                    *)
(* SpecFrame   makes one engine call on the caller's objects, with every   *)
(*             copy and every assignment as a step on a heap.              *)
(***************************************************************************)
EXTENDS Integers, Sequences, FiniteSets, TLC

VARIABLES
    nodes,      \* board-config.ts's `nodes` (exported as BOARD_NODES)
    state,      \* the GameState the engine is called on
    op,         \* the engine function called last
    fromId,     \* the node passed to the last getValidMoves call
    moves,      \* the Move[] the last getValidMoves call returned
    prev,       \* the GameState the last simulateMove call was given
    move,       \* the Move the last simulateMove call was given
    result,     \* what the last checkWinCondition or evaluate call returned
    ai,         \* the getBestMove call in progress: its call stack
    ui,         \* page.tsx: the component's state and its executeMove calls
    heap        \* the objects of the caller and of the engine call made on them

vars == <<nodes, state, op, fromId, moves, prev, move, result, ai, ui, heap>>

-----------------------------------------------------------------------------
(* Bounds of the model.                                                    *)

\* Spec stops simulating moves once turnCount reaches MaxTurns.
MaxTurns == 2

\* SpecSearch calls getBestMove with the depths 0..MaxDepth, and holds at
\* most MaxDepth frames (a search that is still descending then stops).
MaxDepth == 3

\* SpecSearch calls getBestMove with a depth above ShallowDepth only on the
\* positions whose pieces all stand on DeepRegion.
ShallowDepth == 2

\* SpecSearch calls getBestMove on the initial layout with the depths
\* 1..OpeningDepth.
OpeningDepth == 1

\* SpecSearch draws its root positions from the assignments of
\* {empty, black, white} to these nodes, and from the initial layout.
SearchRegion == <<"2,4", "3,3", "m_center", "m_bottom", "m_right">>

DeepRegion == <<"2,4", "3,3", "m_bottom", "m_right">>

\* SpecSession clicks these nodes only.
SessionNodes == <<"0,0", "2,0", "4,1", "1,1">>

\* SpecSession calls executeMove at most MaxExecuted times, and not while
\* MaxCalls calls are in their playback.
MaxExecuted == 3

MaxCalls == 2

\* SpecPvE and SpecTurn follow getBestMove's answer among the first AiMoves
\* moves of getAllMoves.
AiMoves == 2

\* At most MaxRuns invocations of runAi are in flight.
MaxRuns == 2

\* In SpecPvE the user starts a move only while fewer than PveMoves moves
\* were executed.
PveMoves == 2

\* SpecFrame calls getBestMove with depths up to FrameDepth.
FrameDepth == 2

\* SpecOrder draws its input positions from the assignments of
\* {empty, black, white} to these nodes.
OrderRegion == <<"2,4", "1,3", "3,3", "2,2", "0,4", "4,4">>

\* SpecEngine draws its input positions from the assignments of
\* {empty, black, white} to these nodes (the attach point, its two
\* western neighbours on the row and the diagonal, and the four trap nodes);
\* every other node starts empty.
Region == <<"2,3", "2,4", "3,3", "m_top", "m_center", "m_bottom", "m_right">>

-----------------------------------------------------------------------------
(* types.ts                                                                *)

Player == {"black", "white"}

\* JavaScript's null (GameState.winner, checkWinCondition's result).
null == "null"

\* JavaScript's undefined, as the value of pieces[id] for an absent key.
undefined == [id |-> "undefined", player |-> "undefined"]

-----------------------------------------------------------------------------
(* board-config.ts: the topology                                           *)

ROWS == 5
COLS == 5

\* `${r},${c}`
getId(r, c) == ToString(r) \o "," \o ToString(c)

\* Step 1: the grid nodes, in creation order (r outer, c inner).
gridNodes ==
    [k \in 1..(ROWS * COLS) |->
        LET r == (k - 1) \div COLS
            c == (k - 1) % COLS
        IN  [id |-> getId(r, c), x |-> c * 100, y |-> r * 100,
             neighbors |-> <<>>, isMaoce |-> FALSE]]

attachPointId == getId(2, 4)

\* Step 2: the trap nodes.
maoceNodes ==
    << [id |-> "m_top",    x |-> 500, y |-> 100, neighbors |-> <<>>, isMaoce |-> TRUE],
       [id |-> "m_right",  x |-> 600, y |-> 200, neighbors |-> <<>>, isMaoce |-> TRUE],
       [id |-> "m_bottom", x |-> 500, y |-> 300, neighbors |-> <<>>, isMaoce |-> TRUE],
       [id |-> "m_center", x |-> 500, y |-> 200, neighbors |-> <<>>, isMaoce |-> TRUE] >>

\* The keys of `nodes` in insertion order.
nodeOrder == gridNodes \o maoceNodes

\* `nodes` before any edge is added.
unconnected ==
    [id \in {nodeOrder[k].id : k \in DOMAIN nodeOrder} |->
        nodeOrder[CHOOSE k \in DOMAIN nodeOrder : nodeOrder[k].id = id]]

Includes(seq, e) == \E k \in DOMAIN seq : seq[k] = e

\* addEdge: a bi-directional edge, each direction added once.
addEdge(ns, id1, id2) ==
    IF id1 \in DOMAIN ns /\ id2 \in DOMAIN ns
    THEN LET ns1 == IF ~Includes(ns[id1].neighbors, id2)
                    THEN [ns EXCEPT ![id1].neighbors = Append(@, id2)]
                    ELSE ns
         IN  IF ~Includes(ns1[id2].neighbors, id1)
             THEN [ns1 EXCEPT ![id2].neighbors = Append(@, id1)]
             ELSE ns1
    ELSE ns

\* The orthogonal edges of one grid cell: Right, then Down.
cellEdges(r, c) ==
    LET id == getId(r, c)
    IN  (IF c + 1 < COLS THEN << <<id, getId(r, c + 1)>> >> ELSE <<>>)
        \o (IF r + 1 < ROWS THEN << <<id, getId(r + 1, c)>> >> ELSE <<>>)

RECURSIVE orthogonalEdges(_)
orthogonalEdges(k) ==
    IF k > ROWS * COLS THEN <<>>
    ELSE cellEdges((k - 1) \div COLS, (k - 1) % COLS) \o orthogonalEdges(k + 1)

\* The centres of the four "Union Jack" squares.
centers == << [r |-> 1, c |-> 1], [r |-> 1, c |-> 3],
              [r |-> 3, c |-> 1], [r |-> 3, c |-> 3] >>

diagonalsOf(center) ==
    LET cId == getId(center.r, center.c)
    IN  << <<cId, getId(center.r - 1, center.c - 1)>>,
           <<cId, getId(center.r - 1, center.c + 1)>>,
           <<cId, getId(center.r + 1, center.c - 1)>>,
           <<cId, getId(center.r + 1, center.c + 1)>> >>

diagonalEdges ==
    diagonalsOf(centers[1]) \o diagonalsOf(centers[2])
        \o diagonalsOf(centers[3]) \o diagonalsOf(centers[4])

\* Variant with an edge from the attach point straight to m_right, over
\* m_center.
maoceEdges_LongEdge ==
    << <<attachPointId, "m_top">>, <<attachPointId, "m_bottom">>,
       <<attachPointId, "m_center">>, <<attachPointId, "m_right">>,
       <<"m_center", "m_top">>, <<"m_center", "m_right">>,
       <<"m_center", "m_bottom">>,
       <<"m_top", "m_right">>, <<"m_right", "m_bottom">> >>

maoceEdges ==
    << <<attachPointId, "m_top">>, <<attachPointId, "m_bottom">>,
       <<attachPointId, "m_center">>,
       <<"m_center", "m_top">>, <<"m_center", "m_right">>,
       <<"m_center", "m_bottom">>,
       <<"m_top", "m_right">>, <<"m_right", "m_bottom">> >>

\* Every addEdge call of the module, in execution order.
edgeCalls == orthogonalEdges(1) \o diagonalEdges \o maoceEdges

\* The calls from the k-th on, applied to ns (ns is read before the next
\* call is made, so each call is evaluated before the one after it).
RECURSIVE connect(_, _)
connect(ns, k) ==
    IF k > Len(edgeCalls) \/ DOMAIN ns = {} THEN ns
    ELSE connect(addEdge(ns, edgeCalls[k][1], edgeCalls[k][2]), k + 1)

\* `nodes` once the module's top-level code has run.
connected == connect(unconnected, 1)

\* export const BOARD_NODES = nodes
BOARD_NODES == nodes

Node == DOMAIN BOARD_NODES

Abs(v) == IF v < 0 THEN -v ELSE v

\* areCollinear: |cross product| < 1e-5, false for an unknown id.
areCollinear(n1, n2, n3) ==
    IF n1 \notin Node \/ n2 \notin Node \/ n3 \notin Node THEN FALSE
    ELSE LET p1 == BOARD_NODES[n1]
             p2 == BOARD_NODES[n2]
             p3 == BOARD_NODES[n3]
             val == (p2.y - p1.y) * (p3.x - p2.x) - (p2.x - p1.x) * (p3.y - p2.y)
         IN  Abs(val) * 100000 < 1

-----------------------------------------------------------------------------
(* Record<NodeId, Piece>: a JavaScript object with string keys, kept as    *)
(* the sequence of its entries in insertion order (the order Object.entries *)
(* and Object.values enumerate).                                           *)

\* pieces[id]: the piece, or undefined for an absent key.
getPieceAt(pieces, id) ==
    LET S == {k \in DOMAIN pieces : pieces[k].node = id}
    IN  IF S = {} THEN undefined ELSE pieces[CHOOSE k \in S : TRUE].piece

\* delete pieces[id]
Delete(pieces, id) == SelectSeq(pieces, LAMBDA e : e.node # id)

\* pieces[id] = piece: in place for a present key, appended for a new one.
Put(pieces, id, piece) ==
    IF \E k \in DOMAIN pieces : pieces[k].node = id
    THEN [k \in DOMAIN pieces |->
            IF pieces[k].node = id THEN [node |-> id, piece |-> piece]
            ELSE pieces[k]]
    ELSE Append(pieces, [node |-> id, piece |-> piece])

\* Object.values(pieces).filter(p => p.player === player).length
CountOf(pieces, player) ==
    Cardinality({k \in DOMAIN pieces : pieces[k].piece.player = player})

getOpponent(p) == IF p = "black" THEN "white" ELSE "black"

-----------------------------------------------------------------------------
(* rules.ts: getValidMoves                                                 *)

\* A cap sized for the 5x5 grid alone.
SlideCap_GridOnly == ROWS - 1

\* The cap of the slide loop.
SlideCap == 10

\* Variant of the guard that accepts a piece of either side.
ownsPiece_AnyPiece(st, id) == getPieceAt(st.pieces, id) # undefined

\* The guard of getValidMoves: fromId holds a piece of the side to move.
ownsPiece(st, id) ==
    LET piece == getPieceAt(st.pieces, id)
    IN  piece # undefined /\ piece.player = st.currentPlayer

\* The first index of a loop that breaks on its first hit.
FirstIndex(S) == CHOOSE k \in S : \A j \in S : k <= j

\* The only element of a one-element set.
Only(S) == CHOOSE x \in S : TRUE

\* The inner for-loop of the slide: the first neighbour of currentId, other
\* than prevId, colinear with (prevId, currentId); null when there is none.
nextInLine(prevId, currentId) ==
    LET nb == BOARD_NODES[currentId].neighbors
        S == {k \in DOMAIN nb :
                nb[k] # prevId /\ areCollinear(prevId, currentId, nb[k])}
    IN  IF S = {} THEN null ELSE nb[FirstIndex(S)]

\* Variant of the slide loop that does not test the next node for a piece.
RECURSIVE slide_NoEmptyCheck(_, _, _, _, _)
slide_NoEmptyCheck(st, prevId, currentId, i, dests) ==
    IF i >= SlideCap THEN dests
    ELSE LET nxt == nextInLine(prevId, currentId)
         IN  IF nxt # null
             THEN slide_NoEmptyCheck(st, currentId, nxt, i + 1, Append(dests, nxt))
             ELSE dests

\* The slide loop: iteration i, having arrived at currentId from prevId;
\* dests is potentialDestinations so far.
RECURSIVE slide(_, _, _, _, _)
slide(st, prevId, currentId, i, dests) ==
    IF i >= SlideCap THEN dests
    ELSE LET nxt == nextInLine(prevId, currentId)
         IN  IF nxt # null /\ getPieceAt(st.pieces, nxt) = undefined
             THEN slide(st, currentId, nxt, i + 1, Append(dests, nxt))
             ELSE dests

\* startNode.neighbors.forEach(...), from the k-th neighbour on.
RECURSIVE destinationsFrom(_, _, _, _)
destinationsFrom(st, id, k, dests) ==
    LET nb == BOARD_NODES[id].neighbors
    IN  IF k > Len(nb) THEN dests
        ELSE IF getPieceAt(st.pieces, nb[k]) = undefined
             THEN destinationsFrom(st, id, k + 1,
                                   slide(st, id, nb[k], 0, Append(dests, nb[k])))
             ELSE destinationsFrom(st, id, k + 1, dests)

\* potentialDestinations once the forEach has run.
potentialDestinations(st, id) == destinationsFrom(st, id, 1, <<>>)

-----------------------------------------------------------------------------
(* rules.ts: the capture patterns                                          *)

\* checkPick's inner loop for one n1, from the j-th neighbour n2 on; acc
\* holds visitedPairs and result.  The key of a pair,
\* [n1, n2].sort().join('-'), is the same for (n1, n2) and (n2, n1) and
\* differs between pairs (no id holds a '-'): the set {n1, n2}.
RECURSIVE pickInner(_, _, _, _, _, _)
pickInner(pieces, center, opp, n1, j, acc) ==
    LET nb == BOARD_NODES[center].neighbors
    IN  IF j > Len(nb) THEN acc
        ELSE LET n2 == nb[j]
                 key == {n1, n2}
             IN  IF n1 = n2 \/ key \in acc.visitedPairs
                 THEN pickInner(pieces, center, opp, n1, j + 1, acc)
                 ELSE IF areCollinear(n1, center, n2)
                         /\ getPieceAt(pieces, n1).player = opp
                         /\ getPieceAt(pieces, n2).player = opp
                      THEN pickInner(pieces, center, opp, n1, j + 1,
                                     [visitedPairs |-> acc.visitedPairs \cup {key},
                                      res |-> acc.res \o <<n1, n2>>])
                      ELSE pickInner(pieces, center, opp, n1, j + 1,
                                     [acc EXCEPT !.visitedPairs = @ \cup {key}])

\* checkPick's outer loop, from the i-th neighbour n1 on.
RECURSIVE pickLoop(_, _, _, _, _)
pickLoop(pieces, center, opp, i, acc) ==
    LET nb == BOARD_NODES[center].neighbors
    IN  IF i > Len(nb) THEN acc.res
        ELSE pickLoop(pieces, center, opp, i + 1,
                      pickInner(pieces, center, opp, nb[i], 1, acc))

\* Check "Pick": Opp - Center - Opp
checkPick(pieces, center, me) ==
    IF center \notin Node THEN <<>>
    ELSE pickLoop(pieces, center, getOpponent(me), 1,
                  [visitedPairs |-> {}, res |-> <<>>])

\* The inner loop of checkClamp for one n1: n1 is pushed once for every
\* neighbour n2 of n1, other than the centre, that is colinear with
\* (center, n1) and mine.
RECURSIVE clampInner(_, _, _, _, _, _)
clampInner(pieces, center, me, n1, j, res) ==
    LET nb == BOARD_NODES[n1].neighbors
    IN  IF j > Len(nb) THEN res
        ELSE IF nb[j] # center
                /\ areCollinear(center, n1, nb[j])
                /\ getPieceAt(pieces, nb[j]).player = me
             THEN clampInner(pieces, center, me, n1, j + 1, Append(res, n1))
             ELSE clampInner(pieces, center, me, n1, j + 1, res)

\* Variant of the outer loop that does not test n1 for an opponent piece.
RECURSIVE clampLoop_NoOppCheck(_, _, _, _, _)
clampLoop_NoOppCheck(pieces, center, me, i, res) ==
    LET nb == BOARD_NODES[center].neighbors
    IN  IF i > Len(nb) THEN res
        ELSE clampLoop_NoOppCheck(pieces, center, me, i + 1,
                                  clampInner(pieces, center, me, nb[i], 1, res))

\* The outer loop of checkClamp, from the i-th neighbour of the centre on.
RECURSIVE clampLoop(_, _, _, _, _)
clampLoop(pieces, center, me, i, res) ==
    LET nb == BOARD_NODES[center].neighbors
    IN  IF i > Len(nb) THEN res
        ELSE IF getPieceAt(pieces, nb[i]).player = getOpponent(me)
             THEN clampLoop(pieces, center, me, i + 1,
                            clampInner(pieces, center, me, nb[i], 1, res))
             ELSE clampLoop(pieces, center, me, i + 1, res)

\* Check "Clamp": Center - Opp - Me
checkClamp(pieces, center, me) ==
    IF center \notin Node THEN <<>>
    ELSE clampLoop(pieces, center, me, 1, <<>>)

-----------------------------------------------------------------------------
(* rules.ts: calculateRecursiveCaptures                                    *)

\* Variant that takes the clamp targets along with the pick targets.
flippedAt_PickAndClamp(pieces, centerId, currentPlayer) ==
    checkPick(pieces, centerId, currentPlayer)
        \o checkClamp(pieces, centerId, currentPlayer)

\* The targets of one centre: the pick targets, and the clamp targets only
\* when there is no pick target.
flippedAt(pieces, centerId, currentPlayer) ==
    LET pickTargets == checkPick(pieces, centerId, currentPlayer)
    IN  IF Len(pickTargets) > 0 THEN pickTargets
        ELSE checkClamp(pieces, centerId, currentPlayer)

\* flipped.forEach(...), from the k-th target on.  w holds the locals of
\* calculateRecursiveCaptures: pieces, totalCaptures, steps, processedNodes,
\* and the pass's nextBatch and currentStepFlips; centres holds every
\* centre in the order it was processed and boards the pieces each was
\* processed on, entered every node in the order it was pushed to a
\* nextBatch, passes the number of iterations of the while loop.
RECURSIVE applyFlips(_, _, _, _)
applyFlips(w, flipped, k, currentPlayer) ==
    IF k > Len(flipped) THEN w
    ELSE LET fid == flipped[k]
         IN  IF ~Includes(w.totalCaptures, fid)
             THEN LET w1 == [w EXCEPT !.totalCaptures = Append(@, fid),
                                      !.currentStepFlips = Append(@, fid)]
                      p == getPieceAt(w.pieces, fid)
                      w2 == IF p # undefined
                            THEN [w1 EXCEPT
                                    !.pieces = Put(@, fid, [p EXCEPT !.player = currentPlayer]),
                                    !.nextBatch = Append(@, fid),
                                    !.entered = Append(@, fid)]
                            ELSE w1
                  IN  applyFlips(w2, flipped, k + 1, currentPlayer)
             ELSE applyFlips(w, flipped, k + 1, currentPlayer)

\* Variant that processes a freshly flipped node as a centre in the pass
\* that flipped it.
RECURSIVE processCenters_SamePass(_, _, _, _)
processCenters_SamePass(w, activeNodes, k, currentPlayer) ==
    LET queue == activeNodes \o w.nextBatch
    IN  IF k > Len(queue) THEN w
        ELSE LET centerId == queue[k]
             IN  IF centerId \in w.processedNodes
                 THEN processCenters_SamePass(w, activeNodes, k + 1, currentPlayer)
                 ELSE LET w1 == [w EXCEPT !.processedNodes = @ \cup {centerId}]
                          flipped == flippedAt(w1.pieces, centerId, currentPlayer)
                      IN  processCenters_SamePass(
                              applyFlips(w1, flipped, 1, currentPlayer),
                              activeNodes, k + 1, currentPlayer)

\* for (const centerId of activeNodes), from the k-th active node on.
RECURSIVE processCenters(_, _, _, _)
processCenters(w, activeNodes, k, currentPlayer) ==
    IF k > Len(activeNodes) THEN w
    ELSE LET centerId == activeNodes[k]
         IN  IF centerId \in w.processedNodes
             THEN processCenters(w, activeNodes, k + 1, currentPlayer)
             ELSE LET w1 == [w EXCEPT !.processedNodes = @ \cup {centerId},
                                      !.centres = Append(@, centerId),
                                      !.boards = Append(@, w.pieces)]
                      flipped == flippedAt(w1.pieces, centerId, currentPlayer)
                  IN  processCenters(applyFlips(w1, flipped, 1, currentPlayer),
                                     activeNodes, k + 1, currentPlayer)

\* Variant that pushes the group of every pass, empty or not.
pushStep_Always(steps, currentStepFlips) == Append(steps, currentStepFlips)

\* if (currentStepFlips.length > 0) steps.push(currentStepFlips)
pushStep(steps, currentStepFlips) ==
    IF Len(currentStepFlips) > 0 THEN Append(steps, currentStepFlips) ELSE steps

\* Variant that makes one pass only: the flipped nodes are never centres.
captureLoop_OnePass(w, activeNodes, currentPlayer) ==
    LET w1 == processCenters(w, activeNodes, 1, currentPlayer)
    IN  [w1 EXCEPT !.steps = pushStep(@, w1.currentStepFlips)]

\* while (activeNodes.length > 0) { ... }
RECURSIVE captureLoop(_, _, _)
captureLoop(w, activeNodes, currentPlayer) ==
    IF Len(activeNodes) > 0
    THEN LET w1 == processCenters(
                       [w EXCEPT !.nextBatch = <<>>, !.currentStepFlips = <<>>,
                                 !.passes = @ + 1],
                       activeNodes, 1, currentPlayer)
             w2 == [w1 EXCEPT !.steps = pushStep(@, w1.currentStepFlips)]
         IN  captureLoop(w2, w2.nextBatch, currentPlayer)
    ELSE w

\* The virtual board: a copy of the pieces with the mover on `to`.
virtualBoard(pieces, from, to) ==
    Put(Delete(pieces, from), to, getPieceAt(pieces, from))

\* The locals of calculateRecursiveCaptures when its loop has ended.
cascade(initialState, from, to) ==
    captureLoop(
        [pieces |-> virtualBoard(initialState.pieces, from, to),
         totalCaptures |-> <<>>,
         steps |-> <<>>,
         processedNodes |-> {},
         nextBatch |-> <<>>,
         currentStepFlips |-> <<>>,
         boards |-> <<>>,
         centres |-> <<>>,
         entered |-> <<>>,
         passes |-> 0],
        <<to>>, initialState.currentPlayer)

calculateRecursiveCaptures(initialState, from, to) ==
    Only({[allCaptures |-> w.totalCaptures, steps |-> w.steps] :
            w \in {cascade(initialState, from, to)}})

\* potentialDestinations.forEach(toId => moves.push({...}))
movesTo(st, id, dests) ==
    [k \in DOMAIN dests |->
        LET c == calculateRecursiveCaptures(st, id, dests[k])
        IN  [from |-> id, to |-> dests[k],
             captures |-> c.allCaptures, captureSteps |-> c.steps]]

getValidMoves(st, id) ==
    IF ~ownsPiece(st, id) THEN <<>>
    ELSE movesTo(st, id, potentialDestinations(st, id))

-----------------------------------------------------------------------------
(* utils.ts                                                                *)

\* The pieces of one row of the initial layout: keys `${row},${c}`, ids
\* `${tag}-${c}`, c = 0..4.
rowPieces(row, tag, player) ==
    [k \in 1..5 |->
        [node |-> getId(row, k - 1),
         piece |-> [id |-> tag \o "-" \o ToString(k - 1), player |-> player]]]

getInitialState ==
    [pieces |-> rowPieces(0, "b", "black") \o rowPieces(4, "w", "white"),
     currentPlayer |-> "black",
     winner |-> null,
     history |-> <<>>,
     turnCount |-> 0]

\* Object.values(BOARD_NODES).filter(n => n.isMaoce).map(n => n.id)
maoceIds ==
    LET keys == [k \in DOMAIN nodeOrder |-> nodeOrder[k].id]
    IN  SelectSeq(keys, LAMBDA id : BOARD_NODES[id].isMaoce)

isAllInMaoce(st, player) ==
    LET playerPieces == SelectSeq(st.pieces, LAMBDA e : e.piece.player = player)
    IN  IF Len(playerPieces) = 0 THEN FALSE
        ELSE \A k \in DOMAIN playerPieces : Includes(maoceIds, playerPieces[k].node)

\* Variant that knows elimination only.
checkWinCondition_NoConfinement(st) ==
    IF CountOf(st.pieces, "black") = 0 THEN "white"
    ELSE IF CountOf(st.pieces, "white") = 0 THEN "black"
    ELSE null

\* Variant that looks at confinement before elimination.
checkWinCondition_ConfinementFirst(st) ==
    IF isAllInMaoce(st, "black") THEN "white"
    ELSE IF isAllInMaoce(st, "white") THEN "black"
    ELSE IF CountOf(st.pieces, "black") = 0 THEN "white"
    ELSE IF CountOf(st.pieces, "white") = 0 THEN "black"
    ELSE null

checkWinCondition(st) ==
    LET blackCount == CountOf(st.pieces, "black")
        whiteCount == CountOf(st.pieces, "white")
    IN  IF blackCount = 0 THEN "white"
        ELSE IF whiteCount = 0 THEN "black"
        ELSE IF isAllInMaoce(st, "black") THEN "white"
        ELSE IF isAllInMaoce(st, "white") THEN "black"
        ELSE null

-----------------------------------------------------------------------------
(* ai.ts: simulateMove                                                     *)

\* Variant that takes captured pieces off the board.
RECURSIVE applyCaptures_Remove(_, _, _, _)
applyCaptures_Remove(newPieces, captures, k, player) ==
    IF k > Len(captures) THEN newPieces
    ELSE applyCaptures_Remove(Delete(newPieces, captures[k]), captures, k + 1, player)

\* move.captures.forEach(...), from the k-th capture on.
RECURSIVE applyCaptures(_, _, _, _)
applyCaptures(newPieces, captures, k, player) ==
    IF k > Len(captures) THEN newPieces
    ELSE LET p == getPieceAt(newPieces, captures[k])
         IN  IF p # undefined
             THEN applyCaptures(Put(newPieces, captures[k], [p EXCEPT !.player = player]),
                                captures, k + 1, player)
             ELSE applyCaptures(newPieces, captures, k + 1, player)

simulateMove(st, m) ==
    LET moved == Put(Delete(st.pieces, m.from), m.to, getPieceAt(st.pieces, m.from))
    IN  [st EXCEPT
            !.pieces = applyCaptures(moved, m.captures, 1, st.currentPlayer),
            !.currentPlayer = IF st.currentPlayer = "black" THEN "white" ELSE "black",
            !.history = <<>>,
            !.turnCount = st.turnCount + 1,
            !.winner = null]

-----------------------------------------------------------------------------
(* ai.ts: evaluate                                                         *)

\* Evaluation Scores
SCORES ==
    [WIN |-> 10000, LOSS |-> -10000, PIECE_VALUE |-> 100,
     MAOCE_PENALTY |-> -500, MOBILITY_VALUE |-> 5]

\* Variant that applies the trap penalty with the same sign to both sides.
pieceScore_SamePenalty(nodeId, piece, aiPlayer) ==
    (IF piece.player = aiPlayer THEN SCORES.PIECE_VALUE ELSE -SCORES.PIECE_VALUE)
        + (IF BOARD_NODES[nodeId].isMaoce THEN SCORES.MAOCE_PENALTY ELSE 0)

\* What one entry of state.pieces adds to the score.
pieceScore(nodeId, piece, aiPlayer) ==
    IF piece.player = aiPlayer
    THEN SCORES.PIECE_VALUE
            + (IF BOARD_NODES[nodeId].isMaoce THEN SCORES.MAOCE_PENALTY ELSE 0)
    ELSE -SCORES.PIECE_VALUE
            - (IF BOARD_NODES[nodeId].isMaoce THEN SCORES.MAOCE_PENALTY ELSE 0)

\* Object.entries(state.pieces).forEach(...), from the k-th entry on.
RECURSIVE scoreFrom(_, _, _, _)
scoreFrom(pieces, k, aiPlayer, score) ==
    IF k > Len(pieces) THEN score
    ELSE scoreFrom(pieces, k + 1, aiPlayer,
                   score + pieceScore(pieces[k].node, pieces[k].piece, aiPlayer))

\* Heuristic Evaluation
evaluate(st, aiPlayer) ==
    LET winner == checkWinCondition(st)
    IN  IF winner = aiPlayer THEN SCORES.WIN
        ELSE IF winner # null /\ winner # aiPlayer THEN SCORES.LOSS
        ELSE scoreFrom(st.pieces, 1, aiPlayer, 0)

\* A Move | null that is null.
noMove == [from |-> null, to |-> null, captures |-> <<>>, captureSteps |-> <<>>]

\* A local or a result that was not assigned yet.
notCalled == "not called"

-----------------------------------------------------------------------------
(* ai.ts: getBestMove and minimax.  The recursion is kept as its call      *)
(* stack: one frame for getBestMove and one for every minimax call that    *)
(* has entered its move loop; a frame holds the call's arguments and       *)
(* locals.                                                                 *)

\* JavaScript's Infinity: above every score.
Infinity == 1000000000

Max2(a, b) == IF a >= b THEN a ELSE b

Min2(a, b) == IF a <= b THEN a ELSE b

\* getAllMoves: Object.entries(state.pieces).forEach(...), from the k-th
\* entry on.
RECURSIVE allMovesFrom(_, _, _, _)
allMovesFrom(st, player, k, moveList) ==
    IF k > Len(st.pieces) THEN moveList
    ELSE IF st.pieces[k].piece.player = player
         THEN allMovesFrom(st, player, k + 1,
                           moveList \o getValidMoves(st, st.pieces[k].node))
         ELSE allMovesFrom(st, player, k + 1, moveList)

\* Variant that collects the moves of the other side.
getAllMoves_OtherSide(st, player) ==
    allMovesFrom([st EXCEPT !.currentPlayer = getOpponent(player)],
                 getOpponent(player), 1, <<>>)

getAllMoves(st, player) == allMovesFrom(st, player, 1, <<>>)

\* The moves with c captures, then those with fewer, each class in the order
\* of ms.
RECURSIVE sortFrom(_, _)
sortFrom(ms, c) ==
    IF c < 0 THEN <<>>
    ELSE SelectSeq(ms, LAMBDA m : Len(m.captures) = c) \o sortFrom(ms, c - 1)

\* moves.sort((a, b) => b.captures.length - a.captures.length): descending
\* capture count; Array.prototype.sort is stable.
sortByCaptures(ms) ==
    IF ms = <<>> THEN <<>>
    ELSE LET most == CHOOSE c \in {Len(ms[k].captures) : k \in DOMAIN ms} :
                         \A k \in DOMAIN ms : Len(ms[k].captures) <= c
         IN  sortFrom(ms, most)

\* Variant whose getBestMove frame starts from the score of a loss.
newFrame_BestLoss(fn, st, depth, isMaximizing, alpha, beta, ms) ==
    [fn |-> fn, state |-> st, depth |-> depth, isMaximizing |-> isMaximizing,
     alpha |-> alpha, beta |-> beta, moves |-> ms, i |-> 1,
     best |-> IF fn = "getBestMove" THEN SCORES.LOSS
              ELSE IF isMaximizing THEN -Infinity ELSE Infinity,
     bestMove |-> noMove, last |-> notCalled, scores |-> <<>>, cut |-> FALSE]

\* A call that has reached its move loop.  best is bestScore, maxEval or
\* minEval; last is the score of the child searched last; scores holds the
\* value of `score` of every iteration of getBestMove's loop so far; cut is
\* set once the loop has hit its break.
newFrame(fn, st, depth, isMaximizing, alpha, beta, ms) ==
    [fn |-> fn, state |-> st, depth |-> depth, isMaximizing |-> isMaximizing,
     alpha |-> alpha, beta |-> beta, moves |-> ms, i |-> 1,
     best |-> IF isMaximizing THEN -Infinity ELSE Infinity,
     bestMove |-> noMove, last |-> notCalled, scores |-> <<>>, cut |-> FALSE]

\* Variant that breaks as long as the window is open.
cutoff_Reversed(alpha, beta) == alpha <= beta

\* if (beta <= alpha) break
cutoff(alpha, beta) == beta <= alpha

\* Variant that replaces the best move on an equal score.
improves_OrEqual(score, bestScore) == score >= bestScore

\* if (score > bestScore)
improves(score, bestScore) == score > bestScore

\* The rest of the loop body of frame f once the call for moves[i] has
\* returned v.
afterChild(f, v) ==
    IF f.fn = "getBestMove"
    THEN [f EXCEPT !.last = v, !.i = @ + 1, !.scores = Append(@, v),
                   !.best = IF improves(v, f.best) THEN v ELSE @,
                   !.bestMove = IF improves(v, f.best) THEN f.moves[f.i] ELSE @]
    ELSE IF f.isMaximizing
    THEN [f EXCEPT !.last = v, !.i = @ + 1,
                   !.best = Max2(@, v),
                   !.alpha = Max2(@, v),
                   !.cut = cutoff(Max2(f.alpha, v), f.beta)]
    ELSE [f EXCEPT !.last = v, !.i = @ + 1,
                   !.best = Min2(@, v),
                   !.beta = Min2(@, v),
                   !.cut = cutoff(f.alpha, Min2(f.beta, v))]

\* The arguments of the minimax call frame f makes for moves[i].
childCall(f) ==
    [state |-> simulateMove(f.state, f.moves[f.i]),
     depth |-> f.depth - 1,
     isMaximizing |-> IF f.fn = "getBestMove" THEN FALSE ELSE ~f.isMaximizing,
     alpha |-> f.alpha,
     beta |-> f.beta]

\* if (winner || depth === 0)
isLeaf(st, depth) == checkWinCondition(st) # null \/ depth = 0

\* const currPlayer = isMaximizing ? aiPlayer : (the other player)
currPlayer(isMaximizing, aiPlayer) ==
    IF isMaximizing THEN aiPlayer
    ELSE IF aiPlayer = "black" THEN "white" ELSE "black"

\* No getBestMove call was made yet.  called holds the depth argument and
\* the ply of the latest minimax call; pruned tells whether a loop of the
\* search has left moves unsearched at its break; searched and scores hold
\* the moves of getBestMove's loop and the score of each, once it returned.
aiIdle ==
    [pc |-> "idle", aiPlayer |-> null, depth |-> 0, stack |-> <<>>,
     called |-> [depth |-> 0, ply |-> 0], pruned |-> FALSE,
     searched |-> <<>>, scores |-> <<>>,
     bestMove |-> noMove, bestScore |-> notCalled]

-----------------------------------------------------------------------------
(* The engine's calls as actions.                                          *)

\* const winner = checkWinCondition(state)
CallCheckWinCondition ==
    /\ result' = checkWinCondition(state)
    /\ op' = "checkWinCondition"
    /\ UNCHANGED <<nodes, state, fromId, moves, prev, move, ai, ui, heap>>

\* const moves = getValidMoves(state, nodeId)
CallGetValidMoves(n) ==
    /\ moves' = getValidMoves(state, n)
    /\ fromId' = n
    /\ op' = "getValidMoves"
    /\ UNCHANGED <<nodes, state, prev, move, result, ai, ui, heap>>

\* evaluate(state, aiPlayer)
CallEvaluate(aiPlayer) ==
    /\ result' = [aiPlayer |-> aiPlayer, score |-> evaluate(state, aiPlayer)]
    /\ op' = "evaluate"
    /\ UNCHANGED <<nodes, state, fromId, moves, prev, move, ai, ui, heap>>

\* getBestMove(state, depth, aiPlayer), up to its move loop.
CallGetBestMove(depth, aiPlayer) ==
    /\ ai' = [aiIdle EXCEPT
                 !.pc = "searching", !.aiPlayer = aiPlayer, !.depth = depth,
                 !.stack = << newFrame("getBestMove", state, depth, TRUE,
                                       -Infinity, Infinity,
                                       sortByCaptures(getAllMoves(state, aiPlayer))) >>]
    /\ op' = "getBestMove"
    /\ UNCHANGED <<nodes, state, fromId, moves, prev, move, result, ui, heap>>

\* The frame on top of the stack.
top == ai.stack[Len(ai.stack)]

replaceTop(stack, f) == [stack EXCEPT ![Len(stack)] = f]

\* The loop of the top frame calls minimax for its next move.  The call
\* returns at once from a leaf (a winner, depth 0, or no move) and the loop
\* body goes on with its value; else the call enters its own loop.
SearchCall ==
    /\ ai.pc = "searching"
    /\ top.i <= Len(top.moves)
    /\ ~top.cut
    /\ \E f \in {top} : \E c \in {childCall(f)} :
       \E ms \in {IF isLeaf(c.state, c.depth) THEN <<>>
                  ELSE getAllMoves(c.state, currPlayer(c.isMaximizing, ai.aiPlayer))} :
       LET called == [depth |-> c.depth, ply |-> Len(ai.stack)]
       IN  IF Len(ms) = 0
           THEN ai' = [ai EXCEPT
                         !.called = called,
                         !.stack = replaceTop(@, afterChild(f, evaluate(c.state, ai.aiPlayer)))]
           ELSE /\ Len(ai.stack) < MaxDepth
                /\ ai' = [ai EXCEPT
                             !.called = called,
                             !.stack = Append(@, newFrame("minimax", c.state, c.depth,
                                                         c.isMaximizing, c.alpha, c.beta, ms))]
    /\ UNCHANGED <<nodes, state, op, fromId, moves, prev, move, result, ui, heap>>

\* The loop of a minimax frame is over: return maxEval / minEval to the
\* caller's loop body.
SearchReturn ==
    /\ ai.pc = "searching"
    /\ Len(ai.stack) > 1
    /\ top.i > Len(top.moves) \/ top.cut
    /\ ai' = [ai EXCEPT
                 !.pruned = @ \/ (top.cut /\ top.i <= Len(top.moves)),
                 !.stack = replaceTop(SubSeq(@, 1, Len(@) - 1),
                                      afterChild(@[Len(@) - 1], top.best))]
    /\ UNCHANGED <<nodes, state, op, fromId, moves, prev, move, result, ui, heap>>

\* The loop of getBestMove is over: return bestMove.
SearchFinish ==
    /\ ai.pc = "searching"
    /\ Len(ai.stack) = 1
    /\ top.i > Len(top.moves)
    /\ ai' = [ai EXCEPT !.pc = "returned", !.stack = <<>>,
                        !.searched = top.moves, !.scores = top.scores,
                        !.bestMove = top.bestMove, !.bestScore = top.best]
    /\ UNCHANGED <<nodes, state, op, fromId, moves, prev, move, result, ui, heap>>

\* const nextState = simulateMove(state, move), for the k-th move of the list
CallSimulateMove(k) ==
    /\ op = "getValidMoves"
    /\ k \in DOMAIN moves
    /\ prev' = state
    /\ move' = moves[k]
    /\ state' = simulateMove(state, moves[k])
    /\ op' = "simulateMove"
    /\ UNCHANGED <<nodes, fromId, moves, result, ai, ui, heap>>

-----------------------------------------------------------------------------
(* The engine's calls on objects.  heap[a] is the object at address a: a   *)
(* GameState whose pieces field is the address of its pieces object, a     *)
(* pieces object (entries of a node and the address of its piece, 0 for    *)
(* undefined) or a piece.  Every statement of the engine that creates an   *)
(* object or assigns to a key is a step on the heap; what a function       *)
(* reads, it reads through the addresses, so its values are those of the   *)
(* operators above on the position the addresses hold.                     *)

noHeap == <<>>

\* The caller's objects for position st: the GameState at address 1, its
\* pieces object at 2, its pieces from 3 on.
heapOf(st) ==
    << [st EXCEPT !.pieces = 2],
       [k \in DOMAIN st.pieces |-> [node |-> st.pieces[k].node, piece |-> 2 + k]] >>
    \o [k \in DOMAIN st.pieces |-> st.pieces[k].piece]

\* The pieces object at address pm, with its pieces in place of their
\* addresses.
derefPieces(h, pm) ==
    [k \in DOMAIN h[pm] |->
        [node |-> h[pm][k].node,
         piece |-> IF h[pm][k].piece = 0 THEN undefined ELSE h[h[pm][k].piece]]]

\* The position the GameState at address s holds.
derefState(h, s) == [h[s] EXCEPT !.pieces = derefPieces(h, h[s].pieces)]

\* A new object.
alloc(h, obj) == [heap |-> Append(h, obj), ref |-> Len(h) + 1]

\* Variant that hands out the object itself in place of a copy.
spread_Alias(h, ref) == [heap |-> h, ref |-> ref]

\* { ...object }
spread(h, ref) == alloc(h, h[ref])

\* pieces[id], as an address
getKey(h, pm, id) ==
    LET S == {k \in DOMAIN h[pm] : h[pm][k].node = id}
    IN  IF S = {} THEN 0 ELSE h[pm][Only(S)].piece

\* delete pieces[id]
deleteKey(h, pm, id) == [h EXCEPT ![pm] = Delete(@, id)]

\* pieces[id] = (the object at address r)
setKey(h, pm, id, r) == [h EXCEPT ![pm] = Put(@, id, r)]

\* const pieces = { ...state.pieces }; const mover = pieces[from];
\* delete pieces[from]; pieces[to] = mover
moveOnCopy(h, s, from, to) ==
    Only({ [heap |-> setKey(deleteKey(c.heap, c.ref, from), c.ref, to,
                            getKey(c.heap, c.ref, from)),
            ref |-> c.ref] : c \in {spread(h, h[s].pieces)} })

\* pieces[id] = { ...pieces[id], player } for the ids from the k-th on whose
\* key holds a piece.
RECURSIVE flipOnHeap(_, _, _, _, _)
flipOnHeap(h, pm, ids, k, player) ==
    IF k > Len(ids) THEN h
    ELSE IF getKey(h, pm, ids[k]) = 0 THEN flipOnHeap(h, pm, ids, k + 1, player)
    ELSE Only({ flipOnHeap(setKey(a.heap, pm, ids[k], a.ref), pm, ids, k + 1, player) :
                a \in {alloc(h, [h[getKey(h, pm, ids[k])] EXCEPT !.player = player])} })

\* calculateRecursiveCaptures on the GameState at address s: the virtual
\* board and the flips on it.
capturesOnHeap(h, s, from, to) ==
    Only({ flipOnHeap(c.heap, c.ref,
                      calculateRecursiveCaptures(derefState(h, s), from, to).allCaptures,
                      1, h[s].currentPlayer) :
           c \in {moveOnCopy(h, s, from, to)} })

\* getValidMoves on the GameState at address s: calculateRecursiveCaptures
\* for the destinations from the k-th on.
RECURSIVE validMovesOnHeap(_, _, _, _, _)
validMovesOnHeap(h, s, from, ms, k) ==
    IF k > Len(ms) THEN h
    ELSE Only({ validMovesOnHeap(h2, s, from, ms, k + 1) :
                h2 \in {capturesOnHeap(h, s, from, ms[k].to)} })

\* getAllMoves on the GameState at address s, for the entries of its
\* pieces from the k-th on.
RECURSIVE allMovesOnHeap(_, _, _, _, _)
allMovesOnHeap(h, s, st, player, k) ==
    IF k > Len(st.pieces) THEN h
    ELSE IF st.pieces[k].piece.player # player THEN allMovesOnHeap(h, s, st, player, k + 1)
    ELSE Only({ allMovesOnHeap(h2, s, st, player, k + 1) :
                h2 \in {validMovesOnHeap(h, s, st.pieces[k].node,
                                         getValidMoves(st, st.pieces[k].node), 1)} })

\* simulateMove on the GameState at address s: the heap after it and the
\* address of the GameState it returns.
simulateOnHeap(h, s, m) ==
    Only({ alloc(flipOnHeap(c.heap, c.ref, m.captures, 1, h[s].currentPlayer),
                 [h[s] EXCEPT !.pieces = c.ref,
                              !.currentPlayer = IF @ = "black" THEN "white" ELSE "black",
                              !.history = <<>>,
                              !.turnCount = @ + 1,
                              !.winner = null]) :
           c \in {moveOnCopy(h, s, m.from, m.to)} })

\* The move loop of frame f, whose state is an address, from moves[f.i] to
\* its end or its break; and minimax on the GameState at address s.
RECURSIVE loopOnHeap(_, _, _)
RECURSIVE minimaxOnHeap(_, _, _, _, _, _, _)
loopOnHeap(h, f, aiPlayer) ==
    IF f.i > Len(f.moves) \/ f.cut THEN [heap |-> h, frame |-> f]
    ELSE Only({ loopOnHeap(r.heap, afterChild(f, r.value), aiPlayer) :
                r \in { minimaxOnHeap(sim.heap, sim.ref, f.depth - 1, f.alpha, f.beta,
                                      IF f.fn = "getBestMove" THEN FALSE
                                      ELSE ~f.isMaximizing,
                                      aiPlayer) :
                        sim \in {simulateOnHeap(h, f.state, f.moves[f.i])} } })

minimaxOnHeap(h, s, depth, alpha, beta, isMaximizing, aiPlayer) ==
    Only({ IF isLeaf(st, depth) THEN [heap |-> h, value |-> evaluate(st, aiPlayer)]
           ELSE Only({ IF Len(ms) = 0
                       THEN [heap |-> allMovesOnHeap(h, s, st, currPlayer(isMaximizing, aiPlayer), 1),
                             value |-> evaluate(st, aiPlayer)]
                       ELSE Only({ [heap |-> r.heap, value |-> r.frame.best] :
                                   r \in {loopOnHeap(
                                             allMovesOnHeap(h, s, st, currPlayer(isMaximizing, aiPlayer), 1),
                                             newFrame("minimax", s, depth, isMaximizing,
                                                      alpha, beta, ms),
                                             aiPlayer)} }) :
                       ms \in {getAllMoves(st, currPlayer(isMaximizing, aiPlayer))} }) :
           st \in {derefState(h, s)} })

\* getBestMove on the GameState at address s: the heap after it.
bestMoveOnHeap(h, s, depth, aiPlayer) ==
    Only({ loopOnHeap(allMovesOnHeap(h, s, st, aiPlayer, 1),
                      newFrame("getBestMove", s, depth, TRUE, -Infinity, Infinity,
                               sortByCaptures(getAllMoves(st, aiPlayer))),
                      aiPlayer).heap :
           st \in {derefState(h, s)} })

-----------------------------------------------------------------------------
(* page.tsx: the component FiveHorseGame.  ui holds the useState values    *)
(* and, in ui.calls, the executeMove calls that are waiting in one of      *)
(* their delays: each with the gameState of the render it was called from, *)
(* its local currentPieces, the capture step it will play next and the     *)
(* time left of its delay.  Time is counted in units of 100 ms.            *)

\* setTimeout(r, 1200): the delay before each capture step.
StepDelay == 12

\* setTimeout(r, 500): the delay before the turn is finalised.
FinalDelay == 5

\* runAi's delays: setTimeout(r, 500) before getBestMove, then 800, 1200
\* and 800 for the three phases of the animation.
ThinkDelay == 5

HighlightDelay == 8

MovingDelay == 12

LandedDelay == 8

\* The animation state null, as a record of AnimationState's fields.
noAnimation ==
    [step |-> null, from |-> null, to |-> null, piece |-> [id |-> null, player |-> null]]

\* A call of executeMove: ai tells whether runAi made it.
noCall ==
    [gameState |-> getInitialState, move |-> noMove, currentPieces |-> <<>>,
     step |-> 0, wait |-> 0, ai |-> FALSE]

\* ui.event tells which part of an executeMove call ran last ("start",
\* "step" or "finalise"), for which call, and the gameState before it ran,
\* or that handleUndo or handleReset ran last ("undo", "reset"); ui.executed counts the calls of executeMove;
\* ui.done is the call that finalised last, noCall after an undo or reset.
noEvent == [kind |-> "none", call |-> noCall, before |-> getInitialState]

\* The useState initial values.  ui.runs holds the runAi invocations that
\* have not called executeMove yet: each with the gameState of the render
\* whose effect started it, its phase, the time left of its delay and the
\* move getBestMove gave it.
initialUi ==
    [gameState |-> getInitialState, selectedNode |-> null, validMoves |-> <<>>,
     gameMode |-> "PvP", aiThinking |-> FALSE, animation |-> noAnimation,
     calls |-> <<>>, runs |-> <<>>, executed |-> 0, done |-> noCall,
     event |-> noEvent]

\* seq without its j-th element.
without(seq, j) == [k \in 1 .. Len(seq) - 1 |-> IF k < j THEN seq[k] ELSE seq[k + 1]]

\* The AI turn effect, run after a render: it starts runAi when the mode
\* is PvE, white is to move, there is no winner and aiThinking is false.
effect(u) ==
    IF /\ u.gameMode = "PvE"
       /\ u.gameState.currentPlayer = "white"
       /\ u.gameState.winner = null
       /\ ~u.aiThinking
    THEN [u EXCEPT !.aiThinking = TRUE,
                   !.runs = Append(@, [gameState |-> u.gameState, phase |-> "think",
                                       wait |-> ThinkDelay, move |-> noMove])]
    ELSE u

\* handleReset
handleReset(u) ==
    [u EXCEPT !.gameState = getInitialState, !.selectedNode = null,
              !.validMoves = <<>>, !.animation = noAnimation, !.aiThinking = FALSE]

\* handleUndo's setGameState: back by `back` snapshots.
undone(gs, back) ==
    LET n == Len(gs.history)
    IN  [gs EXCEPT !.pieces = gs.history[n - back + 1].pieces,
                   !.currentPlayer = gs.history[n - back + 1].currentPlayer,
                   !.history = SubSeq(gs.history, 1, n - back),
                   !.winner = null]

\* handleUndo
handleUndo(u) ==
    IF Len(u.gameState.history) = 0 \/ u.aiThinking THEN u
    ELSE IF u.gameMode = "PvE" /\ Len(u.gameState.history) < 2 THEN handleReset(u)
    ELSE [u EXCEPT !.gameState = undone(@, IF u.gameMode = "PvE" THEN 2 ELSE 1),
                   !.selectedNode = null, !.validMoves = <<>>]

\* The pieces a capture step is played on: the call's local currentPieces.
accumulator(u, c) == c.currentPieces

\* Variant that plays only the first id of a capture step.
applyStep_FirstOnly(currentPieces, step, k, player) ==
    IF k > Len(step) \/ getPieceAt(currentPieces, step[k]) = undefined THEN currentPieces
    ELSE Put(currentPieces, step[k],
             [getPieceAt(currentPieces, step[k]) EXCEPT !.player = player])

\* step.forEach(capId => ...), from the k-th id on.
RECURSIVE applyStep(_, _, _, _)
applyStep(currentPieces, step, k, player) ==
    IF k > Len(step) THEN currentPieces
    ELSE LET p == getPieceAt(currentPieces, step[k])
         IN  IF p # undefined
             THEN applyStep(Put(currentPieces, step[k], [p EXCEPT !.player = player]),
                            step, k + 1, player)
             ELSE applyStep(currentPieces, step, k + 1, player)

\* executeMove called from a render with gameState gs: its locals when it
\* reaches its first delay.
callOf(gs, m) ==
    [gameState |-> gs, move |-> m,
     currentPieces |-> Put(Delete(gs.pieces, m.from), m.to, getPieceAt(gs.pieces, m.from)),
     step |-> 1, wait |-> StepDelay, ai |-> FALSE]

\* executeMove, "Finalize Turn": the win check and the last setGameState.
finalise(u, c) ==
    LET winner == checkWinCondition([c.gameState EXCEPT !.pieces = c.currentPieces])
        nextPlayer == IF c.gameState.currentPlayer = "black" THEN "white" ELSE "black"
    IN  [u EXCEPT !.gameState = [@ EXCEPT !.pieces = c.currentPieces,
                                          !.currentPlayer = nextPlayer,
                                          !.winner = winner,
                                          !.turnCount = @ + 1],
                  !.selectedNode = null, !.validMoves = <<>>,
                  !.done = c]

\* executeMove, the j-th call in its delays, after a delay of its loop: one
\* capture step and the setGameState that shows it.
stepped(u, j) ==
    LET c == u.calls[j]
        cp == applyStep(accumulator(u, c), c.move.captureSteps[c.step], 1,
                        c.gameState.currentPlayer)
    IN  [u EXCEPT !.gameState.pieces = cp,
                  !.calls[j] = [c EXCEPT !.currentPieces = cp,
                                         !.step = @ + 1,
                                         !.wait = IF c.step = Len(c.move.captureSteps)
                                                  THEN FinalDelay ELSE StepDelay]]

\* The end of call c: "Finalize Turn" and, for a call made by runAi, what
\* runAi does when its `await executeMove(move)` is over.
returned(u, c) ==
    IF c.ai THEN [finalise(u, c) EXCEPT !.animation = noAnimation, !.aiThinking = FALSE]
    ELSE finalise(u, c)

\* executeMove for the call c up to its first delay, or to its end when
\* the move has no capture step.
started(u, c) ==
    LET gs == c.gameState
        currentHistory == Append(gs.history, [pieces |-> gs.pieces,
                                              currentPlayer |-> gs.currentPlayer])
        u1 == [u EXCEPT !.gameState = [@ EXCEPT !.pieces = c.currentPieces,
                                                !.history = currentHistory]]
    IN  IF Len(c.move.captureSteps) > 0 THEN [u1 EXCEPT !.calls = Append(@, c)]
        ELSE returned(u1, c)

\* executeMove(m) called by a handler of the latest render.
executeMove(u, m) == started(u, callOf(u.gameState, m))

\* The animation runAi shows in a phase.
animationOf(run, step) ==
    [step |-> step, from |-> run.move.from, to |-> run.move.to,
     piece |-> getPieceAt(run.gameState.pieces, run.move.from)]

\* runAi after its first delay, with m for what getBestMove returned: the
\* highlight phase, or the end of runAi when there is no move.
thought(u, j, m) ==
    IF m = noMove THEN [u EXCEPT !.runs = without(@, j), !.aiThinking = FALSE]
    ELSE [u EXCEPT !.runs[j] = [@ EXCEPT !.phase = "highlight", !.wait = HighlightDelay,
                                         !.move = m],
                   !.animation = animationOf([u.runs[j] EXCEPT !.move = m], "highlight")]

\* runAi after the delay of one of its animation phases: the next phase,
\* and after the last one the call of executeMove, on the gameState runAi
\* was started with.
animated(u, j) ==
    LET run == u.runs[j]
    IN  IF run.phase = "highlight"
        THEN [u EXCEPT !.runs[j] = [@ EXCEPT !.phase = "moving", !.wait = MovingDelay],
                       !.animation = animationOf(run, "moving")]
        ELSE IF run.phase = "moving"
        THEN [u EXCEPT !.runs[j] = [@ EXCEPT !.phase = "landed", !.wait = LandedDelay],
                       !.animation = animationOf(run, "landed")]
        ELSE started([u EXCEPT !.runs = without(@, j),
                               !.animation = animationOf(run, "landed")],
                     [callOf(run.gameState, run.move) EXCEPT !.ai = TRUE])

\* handleNodeClick: the move it hands to executeMove, or noMove.
clickedMove(u, nodeId) ==
    LET gs == u.gameState
        piece == getPieceAt(gs.pieces, nodeId)
        S == {k \in DOMAIN u.validMoves : u.validMoves[k].to = nodeId}
    IN  IF gs.winner # null \/ u.aiThinking THEN noMove
        ELSE IF u.gameMode = "PvE" /\ gs.currentPlayer = "white" THEN noMove
        ELSE IF piece # undefined /\ piece.player = gs.currentPlayer THEN noMove
        ELSE IF u.selectedNode # null /\ S # {} THEN u.validMoves[FirstIndex(S)]
        ELSE noMove

\* handleNodeClick
handleNodeClick(u, nodeId) ==
    LET gs == u.gameState
        piece == getPieceAt(gs.pieces, nodeId)
    IN  IF gs.winner # null \/ u.aiThinking THEN u
        ELSE IF u.gameMode = "PvE" /\ gs.currentPlayer = "white" THEN u
        ELSE IF piece # undefined /\ piece.player = gs.currentPlayer
        THEN [u EXCEPT !.selectedNode = nodeId, !.validMoves = getValidMoves(gs, nodeId)]
        ELSE IF u.selectedNode = null THEN u
        ELSE IF clickedMove(u, nodeId) # noMove THEN executeMove(u, clickedMove(u, nodeId))
        ELSE [u EXCEPT !.selectedNode = null, !.validMoves = <<>>]

-----------------------------------------------------------------------------
(* Spec: legal play from the initial layout, in the order of the search's  *)
(* tree walk (minimax): the win check of a position, then the moves of     *)
(* each piece of the side to move, then the simulation of one of them.     *)

Init ==
    /\ nodes = connected
    /\ state = getInitialState
    /\ op = "init"
    /\ fromId = null
    /\ moves = <<>>
    /\ prev = getInitialState
    /\ move = noMove
    /\ result = notCalled
    /\ ai = aiIdle
    /\ ui = initialUi
    /\ heap = noHeap

\* minimax: const winner = checkWinCondition(state)
WinCheck ==
    /\ op \in {"init", "simulateMove"}
    /\ CallCheckWinCondition

\* minimax / getAllMoves: no winner and depth left, the moves of one piece
\* of the side to move.
PieceMoves(n) ==
    /\ op \in {"checkWinCondition", "getValidMoves"}
    /\ result = null
    /\ state.turnCount < MaxTurns
    /\ getPieceAt(state.pieces, n).player = state.currentPlayer
    /\ CallGetValidMoves(n)

\* minimax: simulateMove(state, move) for a move of the list
Simulate(k) == CallSimulateMove(k)

Next ==
    \/ WinCheck
    \/ \E n \in Node : PieceMoves(n)
    \/ \E k \in 1..Len(moves) : Simulate(k)

Spec == Init /\ [][Next]_vars

-----------------------------------------------------------------------------
(* SpecEngine: the engine functions on arbitrary positions over Region.    *)

RegionNodes == {Region[k] : k \in DOMAIN Region}

\* The pieces object of an assignment a: Region's occupied nodes, in
\* Region's order.
piecesIn(region, a) ==
    LET occupied == SelectSeq(region, LAMBDA n : a[n] \in Player)
    IN  [k \in DOMAIN occupied |->
            [node |-> occupied[k],
             piece |-> [id |-> "p-" \o occupied[k], player |-> a[occupied[k]]]]]

piecesOf(a) == piecesIn(Region, a)

InitEngine ==
    \E a \in [RegionNodes -> Player \cup {"empty"}], cp \in Player :
        /\ nodes = connected
        /\ state = [pieces |-> piecesOf(a), currentPlayer |-> cp,
                    winner |-> null, history |-> <<>>, turnCount |-> 0]
        /\ op = "init"
        /\ fromId = null
        /\ moves = <<>>
        /\ prev = state
        /\ move = noMove
        /\ result = notCalled
        /\ ai = aiIdle
        /\ ui = initialUi
        /\ heap = noHeap

\* checkWinCondition on an input position, or on a simulated one.
EngineWinCheck ==
    /\ op \in {"init", "simulateMove"}
    /\ CallCheckWinCondition

\* getValidMoves on an input position, for any node of Region: a piece of
\* the side to move, a piece of the other side, or an empty node.
EngineValidMoves(n) ==
    /\ op = "init"
    /\ CallGetValidMoves(n)

EngineSimulate(k) == CallSimulateMove(k)

\* evaluate on an input position, for either side.
EngineEvaluate(aiPlayer) ==
    /\ op = "init"
    /\ CallEvaluate(aiPlayer)

NextEngine ==
    \/ EngineWinCheck
    \/ \E n \in RegionNodes : EngineValidMoves(n)
    \/ \E k \in 1..Len(moves) : EngineSimulate(k)
    \/ \E p \in Player : EngineEvaluate(p)

SpecEngine == InitEngine /\ [][NextEngine]_vars

-----------------------------------------------------------------------------
(* SpecSearch: getBestMove, step by step, for either side: on the          *)
(* positions over SearchRegion with the depths 0..ShallowDepth, on those   *)
(* over DeepRegion with the depths up to MaxDepth, and on the initial      *)
(* layout with the depths 1..OpeningDepth.                                 *)

SearchNodes == {SearchRegion[k] : k \in DOMAIN SearchRegion}

InitSearch ==
    /\ nodes = connected
    /\ \/ \E a \in [SearchNodes -> Player \cup {"empty"}], cp \in Player :
              state = [pieces |-> piecesIn(SearchRegion, a), currentPlayer |-> cp,
                       winner |-> null, history |-> <<>>, turnCount |-> 0]
       \/ state = getInitialState
    /\ op = "init"
    /\ fromId = null
    /\ moves = <<>>
    /\ prev = state
    /\ move = noMove
    /\ result = notCalled
    /\ ai = aiIdle
    /\ ui = initialUi
    /\ heap = noHeap

\* getBestMove on a position over SearchRegion.
SearchStart(depth, aiPlayer) ==
    /\ op = "init"
    /\ state # getInitialState
    /\ \/ depth <= ShallowDepth
       \/ \A k \in DOMAIN state.pieces :
              \E j \in DOMAIN DeepRegion : DeepRegion[j] = state.pieces[k].node
    /\ CallGetBestMove(depth, aiPlayer)

\* getBestMove on the initial layout.
SearchOpening(depth, aiPlayer) ==
    /\ op = "init"
    /\ state = getInitialState
    /\ CallGetBestMove(depth, aiPlayer)

NextSearch ==
    \/ \E d \in 0..MaxDepth, p \in Player : SearchStart(d, p)
    \/ \E d \in 1..OpeningDepth, p \in Player : SearchOpening(d, p)
    \/ SearchCall
    \/ SearchReturn
    \/ SearchFinish

SpecSearch == InitSearch /\ [][NextSearch]_vars

-----------------------------------------------------------------------------
(* SpecOrder: getValidMoves on the positions over OrderRegion, the nodes   *)
(* around the two centres next to "2,3".                                   *)

OrderNodes == {OrderRegion[k] : k \in DOMAIN OrderRegion}

InitOrder ==
    \E a \in [OrderNodes -> Player \cup {"empty"}], cp \in Player :
        /\ nodes = connected
        /\ state = [pieces |-> piecesIn(OrderRegion, a), currentPlayer |-> cp,
                    winner |-> null, history |-> <<>>, turnCount |-> 0]
        /\ op = "init"
        /\ fromId = null
        /\ moves = <<>>
        /\ prev = state
        /\ move = noMove
        /\ result = notCalled
        /\ ai = aiIdle
        /\ ui = initialUi
        /\ heap = noHeap

\* getValidMoves on an input position, for any node of OrderRegion.
OrderValidMoves(n) ==
    /\ op = "init"
    /\ CallGetValidMoves(n)

NextOrder == \E n \in OrderNodes : OrderValidMoves(n)

SpecOrder == InitOrder /\ [][NextOrder]_vars

-----------------------------------------------------------------------------
(* Spec: a two-player session of the page.  The users click nodes, undo    *)
(* and reset at any time, also during the delays of executeMove; a delay   *)
(* that has run out lets its call continue, and two delays that run out in *)
(* the same unit of time continue in either order.                         *)

InitSession ==
    /\ nodes = connected
    /\ state = getInitialState
    /\ op = "init"
    /\ fromId = null
    /\ moves = <<>>
    /\ prev = state
    /\ move = noMove
    /\ result = notCalled
    /\ ai = aiIdle
    /\ ui = initialUi
    /\ heap = noHeap

engineVars == <<nodes, state, op, fromId, moves, prev, move, result, ai, heap>>

\* A click on a node: handleNodeClick, with the part of executeMove it runs
\* before returning.
NodeClick(nodeId) ==
    \E m \in {clickedMove(ui, nodeId)} :
        /\ m # noMove =>
              /\ ui.executed < MaxExecuted
              /\ Len(ui.calls) < MaxCalls
        /\ ui' = [effect(handleNodeClick(ui, nodeId)) EXCEPT
                    !.executed = IF m = noMove THEN @ ELSE @ + 1,
                    !.event = IF m = noMove THEN noEvent
                              ELSE [kind |-> IF Len(m.captureSteps) > 0 THEN "start"
                                             ELSE "finalise",
                                    call |-> callOf(ui.gameState, m),
                                    before |-> ui.gameState]]
        /\ Len(ui'.runs) <= MaxRuns
        /\ UNCHANGED engineVars

\* A click on the undo button.
Undo ==
    /\ ui' = [effect(handleUndo(ui)) EXCEPT
                !.done = noCall,
                !.event = [noEvent EXCEPT !.kind = "undo"]]
    /\ Len(ui'.runs) <= MaxRuns
    /\ UNCHANGED engineVars

\* A click on the reset button.
Reset ==
    /\ ui' = [effect(handleReset(ui)) EXCEPT !.done = noCall,
                                            !.event = [noEvent EXCEPT !.kind = "reset"]]
    /\ UNCHANGED engineVars

\* Time passes while no delay has run out.
Tick ==
    /\ ui.calls # <<>> \/ ui.runs # <<>>
    /\ \A j \in DOMAIN ui.calls : ui.calls[j].wait > 0
    /\ \A j \in DOMAIN ui.runs : ui.runs[j].wait > 0
    /\ ui' = [ui EXCEPT !.calls = [j \in DOMAIN ui.calls |->
                                     [ui.calls[j] EXCEPT !.wait = @ - 1]],
                        !.runs = [j \in DOMAIN ui.runs |->
                                     [ui.runs[j] EXCEPT !.wait = @ - 1]],
                        !.event = noEvent]
    /\ UNCHANGED engineVars

\* executeMove after a delay of its loop: one capture step and the
\* setGameState that shows it.
PlayStep(j) ==
    /\ j \in DOMAIN ui.calls
    /\ ui.calls[j].wait = 0
    /\ ui.calls[j].step <= Len(ui.calls[j].move.captureSteps)
    /\ \E u \in {stepped(ui, j)} :
          ui' = effect([u EXCEPT !.event = [kind |-> "step", call |-> u.calls[j],
                                            before |-> ui.gameState]])
    /\ Len(ui'.runs) <= MaxRuns
    /\ UNCHANGED engineVars

\* executeMove after its last delay: "Finalize Turn".
Finalise(j) ==
    /\ j \in DOMAIN ui.calls
    /\ ui.calls[j].wait = 0
    /\ ui.calls[j].step > Len(ui.calls[j].move.captureSteps)
    /\ ui' = [effect(returned([ui EXCEPT !.calls = without(@, j)], ui.calls[j])) EXCEPT
                !.event = [kind |-> "finalise", call |-> ui.calls[j],
                           before |-> ui.gameState]]
    /\ Len(ui'.runs) <= MaxRuns
    /\ UNCHANGED engineVars

NextSession ==
    \/ \E n \in DOMAIN SessionNodes : NodeClick(SessionNodes[n])
    \/ Undo
    \/ Reset
    \/ Tick
    \/ \E j \in 1 .. MaxCalls : PlayStep(j)
    \/ \E j \in 1 .. MaxCalls : Finalise(j)

SpecSession == InitSession /\ [][NextSession]_vars

-----------------------------------------------------------------------------
(* Sessions that start later in a game: the page after a list of moves was *)
(* played on it, each by its two clicks (or, for white in PvE, by runAi    *)
(* with that move for getBestMove's answer) and left to finish.            *)

\* The move of validMoves the click on ply[2] finds, once ply[1] is selected.
moveOf(gs, ply) ==
    LET ms == getValidMoves(gs, ply[1])
    IN  ms[FirstIndex({k \in DOMAIN ms : ms[k].to = ply[2]})]

\* u once every executeMove in its delays has finished.
RECURSIVE settled(_)
settled(u) ==
    IF u.calls = <<>> THEN u
    ELSE IF u.calls[1].step <= Len(u.calls[1].move.captureSteps)
    THEN Only({settled(v) : v \in {effect(stepped(u, 1))}})
    ELSE Only({settled(v) : v \in {effect(returned([u EXCEPT !.calls = without(@, 1)],
                                                   u.calls[1]))}})

\* u after the user's two clicks for a ply.
clicked(u, ply) ==
    Only({effect(handleNodeClick(v, ply[2])) : v \in {effect(handleNodeClick(u, ply[1]))}})

\* u after runAi has gone through its phases with the move of a ply and
\* called executeMove.
aiPlayed(u, ply) ==
    Only({effect(animated(v3, 1)) :
            v3 \in {effect(animated(v2, 1)) :
                      v2 \in {effect(animated(v1, 1)) :
                                v1 \in {effect(thought(u, 1, moveOf(u.runs[1].gameState,
                                                                    ply)))}}}})

\* u after the plies from the k-th on.
RECURSIVE replayed(_, _, _)
replayed(u, plies, k) ==
    IF k > Len(plies) THEN u
    ELSE IF u.runs # <<>>
    THEN Only({replayed(w, plies, k + 1) : w \in {settled(v) : v \in {aiPlayed(u, plies[k])}}})
    ELSE Only({replayed(w, plies, k + 1) : w \in {settled(v) : v \in {clicked(u, plies[k])}}})

\* White is one capture from taking the last black piece: black 0,0 to
\* 2,0, white 4,1 to 1,1 (four captures), black 0,4 to 3,4.
EndgamePlies == << <<"0,0", "2,0">>, <<"4,1", "1,1">>, <<"0,4", "3,4">> >>

\* The nodes the users click in SpecEndgame.
EndgameNodes == <<"0,2", "2,4">>

\* A game against the computer that leaves white one piece, on 0,0, with
\* black on 1,0 and 1,1 and to move: the odd plies are the user's, the even
\* ones what getBestMove(gameState, 3, 'white') answers to them.
CornerPlies ==
    << <<"0,0", "3,0">>, <<"4,2", "2,0">>, <<"0,2", "4,2">>, <<"2,0", "0,2">>,
       <<"4,2", "m_top">>, <<"0,2", "2,4">>, <<"4,3", "3,3">>, <<"0,1", "0,2">>,
       <<"2,4", "2,0">>, <<"0,2", "2,2">>, <<"4,1", "3,1">>, <<"4,4", "2,4">>,
       <<"4,0", "4,4">>, <<"0,3", "0,2">>, <<"2,2", "1,1">>, <<"0,2", "0,1">>,
       <<"0,4", "0,2">>, <<"0,1", "0,0">>, <<"2,0", "1,0">>, <<"0,0", "0,1">>,
       <<"3,0", "2,0">>, <<"0,1", "0,0">> >>

\* The nodes the user clicks in SpecTurn.
CornerNodes == <<"0,2", "1,1", "0,1", "1,2">>

-----------------------------------------------------------------------------
(* Spec: a two-player session that opens with EndgamePlies, each move left *)
(* to finish, and goes on with the events of SpecSession.                  *)

\* A click on the button of a mode, and the plies played in it with no
\* other event before the last of them has finished.
Opening(mode, plies) ==
    /\ op = "init"
    /\ op' = "opened"
    /\ \E u \in {effect(handleReset([ui EXCEPT !.gameMode = mode]))} :
          ui' = [replayed(u, plies, 1) EXCEPT !.executed = 0, !.done = noCall,
                                              !.event = noEvent]
    /\ UNCHANGED <<nodes, state, fromId, moves, prev, move, result, ai, heap>>

NextEndgame ==
    \/ Opening("PvP", EndgamePlies)
    \/ op = "opened" /\ \E n \in DOMAIN EndgameNodes : NodeClick(EndgameNodes[n])
    \/ op = "opened" /\ Undo
    \/ op = "opened" /\ Reset
    \/ op = "opened" /\ Tick
    \/ op = "opened" /\ \E j \in 1 .. MaxCalls : PlayStep(j)
    \/ op = "opened" /\ \E j \in 1 .. MaxCalls : Finalise(j)

SpecEndgame == InitSession /\ [][NextEndgame]_vars

-----------------------------------------------------------------------------
(* Spec: a session against the computer.  The user picks the PvE mode,     *)
(* clicks nodes, undoes and resets, each right after a step of the page   *)
(* and also while delays are pending; runAi and executeMove go on when     *)
(* their delays run out.  getBestMove(gameState, 3, 'white') is taken by   *)
(* what it returns: some move of getAllMoves(gameState, 'white'), or null  *)
(* when there is none.                                                     *)

\* What getBestMove(gs, 3, 'white') may return: null when getAllMoves has
\* no move, else one of its moves; the specification follows the answers
\* among the first AiMoves of the sorted list getBestMove goes through.
bestMoves(gs) ==
    LET all == sortByCaptures(getAllMoves(gs, "white"))
    IN  IF all = <<>> THEN {noMove}
        ELSE {all[k] : k \in {j \in DOMAIN all : j <= AiMoves}}

\* A click on a mode button: setGameMode(mode); handleReset().
SetMode(mode) ==
    /\ ui' = [effect(handleReset([ui EXCEPT !.gameMode = mode])) EXCEPT
                !.done = noCall, !.event = [noEvent EXCEPT !.kind = "reset"]]
    /\ UNCHANGED engineVars

\* A click of the user on a node while the mode is PvE.
HumanClick(nodeId) ==
    /\ ui.gameMode = "PvE"
    /\ clickedMove(ui, nodeId) # noMove => ui.executed < PveMoves
    /\ NodeClick(nodeId)

\* The time left of every pending delay.
pending(u) ==
    {u.calls[j].wait : j \in DOMAIN u.calls} \cup {u.runs[j].wait : j \in DOMAIN u.runs}

\* Time passes until the next delay runs out.
Wait ==
    /\ pending(ui) # {}
    /\ 0 \notin pending(ui)
    /\ \E d \in {w \in pending(ui) : \A x \in pending(ui) : w <= x} :
          ui' = [ui EXCEPT !.calls = [j \in DOMAIN ui.calls |->
                                        [ui.calls[j] EXCEPT !.wait = @ - d]],
                           !.runs = [j \in DOMAIN ui.runs |->
                                        [ui.runs[j] EXCEPT !.wait = @ - d]],
                           !.event = noEvent]
    /\ UNCHANGED engineVars

\* runAi after its first delay: getBestMove and the highlight.
Think(j) ==
    /\ j \in DOMAIN ui.runs
    /\ ui.runs[j].wait = 0
    /\ ui.runs[j].phase = "think"
    /\ \E m \in bestMoves(ui.runs[j].gameState) :
          ui' = [effect(thought(ui, j, m)) EXCEPT !.event = noEvent]
    /\ Len(ui'.runs) <= MaxRuns
    /\ UNCHANGED engineVars

\* runAi after the delay of an animation phase; after the last one, with
\* the part of executeMove that runs before its first delay.
Animate(j) ==
    /\ j \in DOMAIN ui.runs
    /\ ui.runs[j].wait = 0
    /\ ui.runs[j].phase # "think"
    /\ \E run \in {ui.runs[j]} :
       \E c \in {[callOf(run.gameState, run.move) EXCEPT !.ai = TRUE]} :
          /\ run.phase = "landed" => Len(ui.calls) < MaxCalls
          /\ ui' = [effect(animated(ui, j)) EXCEPT
                      !.executed = IF run.phase = "landed" THEN @ + 1 ELSE @,
                      !.event = IF run.phase # "landed" THEN noEvent
                                ELSE [kind |-> IF Len(run.move.captureSteps) > 0
                                               THEN "start" ELSE "finalise",
                                      call |-> c, before |-> ui.gameState]]
    /\ Len(ui'.runs) <= MaxRuns
    /\ UNCHANGED engineVars

NextPvE ==
    \/ \E n \in DOMAIN SessionNodes : HumanClick(SessionNodes[n])
    \/ Undo
    \/ Reset
    \/ SetMode("PvE")
    \/ Wait
    \/ \E j \in 1 .. MaxRuns : Think(j)
    \/ \E j \in 1 .. MaxRuns : Animate(j)
    \/ \E j \in 1 .. MaxCalls : PlayStep(j)
    \/ \E j \in 1 .. MaxCalls : Finalise(j)

SpecPvE == InitSession /\ [][NextPvE]_vars

-----------------------------------------------------------------------------
(* Spec: the turns of a session against the computer that opens with       *)
(* CornerPlies, with no reset, undo or mode switch after the opening.  A   *)
(* delay that is pending runs out, and a continuation whose delay has run  *)
(* out runs: the timers and the event loop of the browser see to both.     *)

NextTurn ==
    \/ Opening("PvE", CornerPlies)
    \/ op = "opened" /\ \E n \in DOMAIN CornerNodes : HumanClick(CornerNodes[n])
    \/ op = "opened" /\ Tick
    \/ op = "opened" /\ \E j \in 1 .. MaxRuns : Think(j)
    \/ op = "opened" /\ \E j \in 1 .. MaxRuns : Animate(j)
    \/ op = "opened" /\ \E j \in 1 .. MaxCalls : PlayStep(j)
    \/ op = "opened" /\ \E j \in 1 .. MaxCalls : Finalise(j)

\* A runAi is past its first delay and has not called getBestMove: Think
\* is enabled.
ThinkReady ==
    \E j \in DOMAIN ui.runs : ui.runs[j].wait = 0 /\ ui.runs[j].phase = "think"

\* A step in which such a runAi went on: a Think step.
ThinkMade ==
    \E j \in DOMAIN ui.runs :
        /\ ui.runs[j].wait = 0
        /\ ui.runs[j].phase = "think"
        /\ j \notin DOMAIN ui'.runs \/ ui'.runs[j] # ui.runs[j]

\* Weak fairness of each kind of step; that of Think is spelt out with
\* ThinkReady for ENABLED Think.
SpecTurn ==
    /\ InitSession
    /\ [][NextTurn]_vars
    /\ WF_vars(op = "opened" /\ Tick)
    /\ WF_vars(op = "opened" /\ \E j \in 1 .. MaxRuns : Animate(j))
    /\ WF_vars(op = "opened" /\ \E j \in 1 .. MaxCalls : PlayStep(j))
    /\ WF_vars(op = "opened" /\ \E j \in 1 .. MaxCalls : Finalise(j))
    /\ ([]<>(~ThinkReady) \/ []<><<ThinkMade>>_vars)

-----------------------------------------------------------------------------
(* Spec: one call of an engine function on the caller's objects, for every *)
(* position on DeepRegion.  state is the position the caller held before   *)
(* the call; heap holds the caller's objects, and after the call also the  *)
(* objects the call made.  getBestMove is called with depths from 1 to     *)
(* FrameDepth.                                                             *)

FrameNodes == {DeepRegion[k] : k \in DOMAIN DeepRegion}

InitFrame ==
    \E a \in [FrameNodes -> Player \cup {"empty"}], cp \in Player :
        /\ nodes = connected
        /\ state = [pieces |-> piecesIn(DeepRegion, a), currentPlayer |-> cp,
                    winner |-> null, history |-> <<>>, turnCount |-> 0]
        /\ op = "init"
        /\ fromId = null
        /\ moves = <<>>
        /\ prev = state
        /\ move = noMove
        /\ result = notCalled
        /\ ai = aiIdle
        /\ ui = initialUi
        /\ heap = heapOf(state)

\* getValidMoves(state, n)
FrameGetValidMoves(n) ==
    /\ op = "init"
    /\ op' = "getValidMoves"
    /\ fromId' = n
    /\ moves' = getValidMoves(state, n)
    /\ heap' = validMovesOnHeap(heap, 1, n, getValidMoves(derefState(heap, 1), n), 1)
    /\ UNCHANGED <<nodes, state, prev, move, result, ai, ui>>

\* checkWinCondition(state) and evaluate(state, aiPlayer) have no
\* statement that creates an object or assigns to a key.
FrameCheckWinCondition ==
    /\ op = "init"
    /\ op' = "checkWinCondition"
    /\ result' = checkWinCondition(derefState(heap, 1))
    /\ UNCHANGED <<nodes, state, fromId, moves, prev, move, ai, ui, heap>>

FrameEvaluate(aiPlayer) ==
    /\ op = "init"
    /\ op' = "evaluate"
    /\ result' = evaluate(derefState(heap, 1), aiPlayer)
    /\ UNCHANGED <<nodes, state, fromId, moves, prev, move, ai, ui, heap>>

\* simulateMove(state, m) for a move m of the side to move
FrameSimulateMove(k) ==
    /\ op = "init"
    /\ k \in DOMAIN getAllMoves(state, state.currentPlayer)
    /\ op' = "simulateMove"
    /\ move' = getAllMoves(state, state.currentPlayer)[k]
    /\ heap' = simulateOnHeap(heap, 1, getAllMoves(state, state.currentPlayer)[k]).heap
    /\ UNCHANGED <<nodes, state, fromId, moves, prev, result, ai, ui>>

\* getBestMove(state, depth, aiPlayer)
FrameGetBestMove(depth, aiPlayer) ==
    /\ op = "init"
    /\ op' = "getBestMove"
    /\ heap' = bestMoveOnHeap(heap, 1, depth, aiPlayer)
    /\ UNCHANGED <<nodes, state, fromId, moves, prev, move, result, ai, ui>>

NextFrame ==
    \/ \E n \in FrameNodes : FrameGetValidMoves(n)
    \/ FrameCheckWinCondition
    \/ \E p \in Player : FrameEvaluate(p)
    \/ \E k \in DOMAIN getAllMoves(state, state.currentPlayer) : FrameSimulateMove(k)
    \/ \E d \in 1 .. FrameDepth, p \in Player : FrameGetBestMove(d, p)

SpecFrame == InitFrame /\ [][NextFrame]_vars

-----------------------------------------------------------------------------
(* Vocabulary of the properties: positions as sets, geometry from the      *)
(* coordinates.                                                            *)

\* Who holds node n: "black", "white" or "empty".
Owner(pieces, n) ==
    IF \E k \in DOMAIN pieces : pieces[k].node = n
    THEN (pieces[CHOOSE k \in DOMAIN pieces : pieces[k].node = n]).piece.player
    ELSE "empty"

NeighborSet(n) == {nodes[n].neighbors[k] : k \in DOMAIN nodes[n].neighbors}

TrapNodes == {n \in DOMAIN nodes : nodes[n].isMaoce}

NodesOf(pieces, player) == {n \in DOMAIN nodes : Owner(pieces, n) = player}

Other(player) == CHOOSE q \in Player : q # player

Cross(a, b, c) ==
    (nodes[b].y - nodes[a].y) * (nodes[c].x - nodes[b].x)
        - (nodes[b].x - nodes[a].x) * (nodes[c].y - nodes[b].y)

Dot(a, b, c) ==
    (nodes[b].x - nodes[a].x) * (nodes[c].x - nodes[b].x)
        + (nodes[b].y - nodes[a].y) * (nodes[c].y - nodes[b].y)

\* a, b, c lie on one line.
Colinear(a, b, c) == Cross(a, b, c) = 0

\* c continues the step a -> b in the same direction.
Straight(a, b, c) == Cross(a, b, c) = 0 /\ Dot(a, b, c) > 0

\* c lies opposite a through b.
Opposite(a, b, c) == a # c /\ Straight(a, b, c)

\* The steps (b, c) that extend a path ending in the step p = (a, b) over
\* empty nodes: colinear ones, or (straight) only those that keep the
\* direction.
Extensions(pieces, p, straight) ==
    {<<p[2], c>> : c \in {c \in NeighborSet(p[2]) :
        /\ Owner(pieces, c) = "empty"
        /\ IF straight THEN Straight(p[1], p[2], c) ELSE Colinear(p[1], p[2], c)}}

RECURSIVE PathSteps(_, _, _)
PathSteps(pieces, steps, straight) ==
    LET more == UNION {Extensions(pieces, p, straight) : p \in steps}
    IN  IF more \subseteq steps THEN steps
        ELSE PathSteps(pieces, steps \cup more, straight)

\* The nodes joined to `from` by a path of adjacent, empty nodes whose
\* consecutive triples are colinear (straight: and keep one direction).
Reach(pieces, from, straight) ==
    LET first == {<<from, n>> : n \in {n \in NeighborSet(from) : Owner(pieces, n) = "empty"}}
    IN  {p[2] : p \in PathSteps(pieces, first, straight)}

Destinations == {moves[k].to : k \in DOMAIN moves}

Range(seq) == {seq[k] : k \in DOMAIN seq}

RECURSIVE Concat(_)
Concat(groups) ==
    IF groups = <<>> THEN <<>> ELSE Head(groups) \o Concat(Tail(groups))

NoDuplicates(seq) == \A i, j \in DOMAIN seq : seq[i] = seq[j] => i = j

\* Who holds node n once the piece of `from` stands on `to`, before any capture.
OwnerAfterStep(pieces, from, to, n) ==
    IF n = to THEN Owner(pieces, from)
    ELSE IF n = from THEN "empty"
    ELSE Owner(pieces, n)

\* The nodes of the pairs of opponent pieces that face each other through
\* `to` once the mover stands there.
PickSet(pieces, from, to) ==
    LET opp == Other(Owner(pieces, from))
    IN  {a \in NeighborSet(to) :
            /\ OwnerAfterStep(pieces, from, to, a) = opp
            /\ \E b \in NeighborSet(to) :
                  /\ Opposite(a, to, b)
                  /\ OwnerAfterStep(pieces, from, to, b) = opp}

\* The opponent neighbours of `to` that have a piece of the mover right
\* behind them on the line from `to`.
ClampSet(pieces, from, to) ==
    LET me == Owner(pieces, from)
    IN  {a \in NeighborSet(to) :
            /\ OwnerAfterStep(pieces, from, to, a) = Other(me)
            /\ \E b \in NeighborSet(a) \ {to} :
                  /\ Colinear(to, a, b)
                  /\ OwnerAfterStep(pieces, from, to, b) = me}

\* A side meets a losing condition: no piece, or every piece on a trap node.
Loses(pieces, player) == NodesOf(pieces, player) \subseteq TrapNodes

-----------------------------------------------------------------------------
(* getValidMoves: the destinations                                         *)

\* C1: every move getValidMoves returns for `from` starts at `from` and ends
\* on a node that is empty in the position and is joined to `from` by a path
\* of adjacent nodes, all empty after `from`, whose consecutive triples are
\* colinear; so no slide passes over an occupied node.
C1_DestinationsEmptyAndReachable ==
    op = "getValidMoves" =>
        \A k \in DOMAIN moves :
            /\ moves[k].from = fromId
            /\ Owner(state.pieces, moves[k].to) = "empty"
            /\ moves[k].to \in Reach(state.pieces, fromId, FALSE)

\* A slide of several steps was returned, and a slide was stopped by an
\* occupied node on its line.
C1_Witness ==
    /\ op = "getValidMoves"
    /\ \E k \in DOMAIN moves : moves[k].to \notin NeighborSet(fromId)
    /\ \E a \in Destinations \cup {fromId} : \E b \in Destinations \cap NeighborSet(a) :
           \E c \in NeighborSet(b) :
               Straight(a, b, c) /\ Owner(state.pieces, c) # "empty"

\* C2: for a piece of the side to move, the destinations returned are exactly
\* the nodes reachable over empty nodes along a straight path that keeps its
\* direction, each returned once; the slide cap cuts none of them off.
C2_DestinationsCompleteOnce ==
    (op = "getValidMoves" /\ Owner(state.pieces, fromId) = state.currentPlayer) =>
        /\ Destinations = Reach(state.pieces, fromId, TRUE)
        /\ \A j, k \in DOMAIN moves : moves[j].to = moves[k].to => j = k

\* The longest line of the board, slid from end to end: six steps from the
\* far trap node along the middle row.
C2_Witness ==
    /\ op = "getValidMoves"
    /\ fromId = "m_right"
    /\ Owner(state.pieces, fromId) = state.currentPlayer
    /\ getId(2, 0) \in Destinations

\* C3: getValidMoves returns the empty list when `from` is empty or holds a
\* piece of the side that is not to move.
C3_NothingForForeignOrEmptyNode ==
    (op = "getValidMoves" /\ Owner(state.pieces, fromId) # state.currentPlayer) =>
        moves = <<>>

\* The node asked for holds a piece of the side not to move, and that piece
\* has an empty neighbour it could step to.
C3_Witness ==
    /\ op = "getValidMoves"
    /\ Owner(state.pieces, fromId) = Other(state.currentPlayer)
    /\ \E n \in NeighborSet(fromId) : Owner(state.pieces, n) = "empty"
    /\ moves = <<>>

-----------------------------------------------------------------------------
(* getValidMoves: the captures of a move                                   *)

\* C4: in every move returned, each capture group is non-empty, no node
\* occurs twice within a group or in two groups, and the flat capture list
\* is the groups concatenated in order.
C4_GroupsPartitionCaptures ==
    op = "getValidMoves" =>
        \A k \in DOMAIN moves :
            /\ \A g \in DOMAIN moves[k].captureSteps : moves[k].captureSteps[g] # <<>>
            /\ NoDuplicates(Concat(moves[k].captureSteps))
            /\ moves[k].captures = Concat(moves[k].captureSteps)

\* A move whose captures cascade: at least two groups.
C4_Witness ==
    /\ op = "getValidMoves"
    /\ \E k \in DOMAIN moves : Len(moves[k].captureSteps) >= 2

\* C5: every node a returned move captures holds a piece of the opponent of
\* the side to move in the position the move is generated from; it is never
\* the move's origin or destination.
C5_CapturesAreOpponentPieces ==
    op = "getValidMoves" =>
        \A k \in DOMAIN moves : \A c \in Range(moves[k].captures) :
            /\ Owner(state.pieces, c) = Other(state.currentPlayer)
            /\ c \notin {moves[k].from, moves[k].to}

\* A move that captures, next to a piece of the mover that stays as it is.
C5_Witness ==
    /\ op = "getValidMoves"
    /\ \E k \in DOMAIN moves :
           /\ moves[k].captures # <<>>
           /\ \E n \in NeighborSet(moves[k].to) \ {fromId} :
                  Owner(state.pieces, n) = state.currentPlayer

\* C6: at the node a move lands on, pick has priority over clamp.  When two
\* opponent pieces face each other through the destination, the first
\* capture group is exactly the pieces of all such pairs, and holds no piece
\* that is only clamped; otherwise the first group, if any, is exactly the
\* opponent neighbours of the destination that have a piece of the mover
\* right behind them on the line from the destination (a node other than
\* the destination itself).
C6_PickBeforeClampAtDestination ==
    op = "getValidMoves" =>
        \A k \in DOMAIN moves :
            LET pick  == PickSet(state.pieces, fromId, moves[k].to)
                clamp == ClampSet(state.pieces, fromId, moves[k].to)
                first == IF moves[k].captureSteps = <<>> THEN {}
                         ELSE Range(moves[k].captureSteps[1])
            IN  first = IF pick # {} THEN pick ELSE clamp

\* A move lands where a pick exists and a further opponent piece is clamped
\* but belongs to no pick pair.
C6_Witness ==
    /\ op = "getValidMoves"
    /\ \E k \in DOMAIN moves :
           /\ PickSet(state.pieces, fromId, moves[k].to) # {}
           /\ ClampSet(state.pieces, fromId, moves[k].to)
                  \ PickSet(state.pieces, fromId, moves[k].to) # {}

\* C7: the groups of a move are in cascade order.  Every node of the first
\* group is adjacent to the destination, and every node of a later group is
\* adjacent to a node of the group just before it.
C7_GroupsInCascadeOrder ==
    op = "getValidMoves" =>
        \A k \in DOMAIN moves : \A g \in DOMAIN moves[k].captureSteps :
            \A c \in Range(moves[k].captureSteps[g]) :
                IF g = 1 THEN c \in NeighborSet(moves[k].to)
                ELSE \E b \in Range(moves[k].captureSteps[g - 1]) : c \in NeighborSet(b)

\* A cascade whose second group holds a node that is not adjacent to the
\* destination.
C7_Witness ==
    /\ op = "getValidMoves"
    /\ \E k \in DOMAIN moves :
           /\ Len(moves[k].captureSteps) >= 2
           /\ Range(moves[k].captureSteps[2]) \ NeighborSet(moves[k].to) # {}

-----------------------------------------------------------------------------
(* checkWinCondition                                                       *)

\* C8: checkWinCondition names a winner exactly when a side has no piece or
\* has all its pieces on trap nodes.  A side without a piece loses before
\* confinement is looked at (black first), and when exactly one side meets a
\* losing condition the other side is the winner: in particular a side whose
\* pieces all sit on trap nodes loses to an opponent with a piece outside.
C8_WinnerIffEliminatedOrConfined ==
    op = "checkWinCondition" =>
        LET b == NodesOf(state.pieces, "black")
            w == NodesOf(state.pieces, "white")
        IN  /\ result # null <=> (Loses(state.pieces, "black") \/ Loses(state.pieces, "white"))
            /\ b = {} => result = "white"
            /\ (b # {} /\ w = {}) => result = "black"
            /\ \A p \in Player :
                   (Loses(state.pieces, p) /\ ~Loses(state.pieces, Other(p)))
                       => result = Other(p)

\* A side has pieces, all of them on trap nodes, the opponent has a piece
\* outside the trap, and the opponent is named.
C8_Witness ==
    /\ op = "checkWinCondition"
    /\ \E p \in Player :
           /\ NodesOf(state.pieces, p) # {}
           /\ NodesOf(state.pieces, p) \subseteq TrapNodes
           /\ ~(NodesOf(state.pieces, Other(p)) \subseteq TrapNodes)
           /\ result = Other(p)

\* C9: after a legal move made in a position checkWinCondition finds no
\* winner in, at most one side meets a losing condition.
C9_AtMostOneLoserAfterMove ==
    (op = "simulateMove" /\ checkWinCondition(prev) = null) =>
        ~(Loses(state.pieces, "black") /\ Loses(state.pieces, "white"))

\* A move from a position without winner whose captures take the opponent's
\* last pieces.
C9_Witness ==
    /\ op = "simulateMove"
    /\ checkWinCondition(prev) = null
    /\ move.captures # <<>>
    /\ NodesOf(state.pieces, state.currentPlayer) = {}
    /\ ~Loses(state.pieces, prev.currentPlayer)

-----------------------------------------------------------------------------
(* The piece count                                                         *)

-----------------------------------------------------------------------------
(* evaluate                                                                *)

\* C17: the win/loss score dominates the material score.  A position without
\* winner scores strictly between -10000 and +10000: 100 for every piece of
\* `side` and -100 for every opponent piece, 500 less for every piece of
\* `side` on a trap node and 500 more for every opponent piece on a trap
\* node.  A won position scores exactly +10000 for the winner and -10000 for
\* the loser.  The score for the other side is the negated score.
C17_WinDominatesMaterial ==
    op = "evaluate" =>
        LET side == result.aiPlayer
            own  == NodesOf(state.pieces, side)
            opp  == NodesOf(state.pieces, Other(side))
            won  == Loses(state.pieces, "black") \/ Loses(state.pieces, "white")
        IN  /\ ~won =>
                  /\ -10000 < result.score /\ result.score < 10000
                  /\ result.score =
                         100 * (Cardinality(own) - Cardinality(opp))
                             - 500 * Cardinality(own \cap TrapNodes)
                             + 500 * Cardinality(opp \cap TrapNodes)
            /\ won => result.score =
                         IF checkWinCondition(state) = side THEN 10000 ELSE -10000
            /\ evaluate(state, Other(side)) = -result.score

\* A position without winner with pieces of both sides on trap nodes, in
\* unequal numbers.
C17_Witness ==
    /\ op = "evaluate"
    /\ ~Loses(state.pieces, "black")
    /\ ~Loses(state.pieces, "white")
    /\ NodesOf(state.pieces, result.aiPlayer) \cap TrapNodes # {}
    /\ Cardinality(NodesOf(state.pieces, Other(result.aiPlayer)) \cap TrapNodes) >
           Cardinality(NodesOf(state.pieces, result.aiPlayer) \cap TrapNodes)

-----------------------------------------------------------------------------
(* Search (SpecSearch): the result of getBestMove.                         *)

\* The legal moves of a side: getValidMoves of each of its pieces.
HasLegalMove(st, side) ==
    \E n \in NodesOf(st.pieces, side) : getValidMoves(st, n) # <<>>

\* C11: with a depth >= 1 and the side to move, getBestMove returns null
\* exactly when getValidMoves is empty for every piece of that side, and a
\* move whenever some piece has a legal move.
C11_NullIffNoLegalMove ==
    (ai.pc = "returned" /\ ai.depth >= 1 /\ ai.aiPlayer = state.currentPlayer) =>
        (ai.bestMove = noMove <=> ~HasLegalMove(state, ai.aiPlayer))

\* getBestMove returned null for a side that has a piece, blocked on every
\* side.
C11_Witness ==
    /\ ai.pc = "returned" /\ ai.depth >= 1 /\ ai.aiPlayer = state.currentPlayer
    /\ ai.bestMove = noMove
    /\ NodesOf(state.pieces, ai.aiPlayer) # {}

\* C12: a move returned by getBestMove starts on a node that holds a piece
\* of the searching side and is one of the moves getValidMoves returns for
\* that node, with its destination and capture groups; from the initial
\* layout at depth 1 it leaves one of the mover's five starting nodes for an
\* empty node reached by a step or a straight slide.
C12_ReturnedMoveIsValidMove ==
    (ai.pc = "returned" /\ ai.bestMove # noMove) =>
        LET m == ai.bestMove
            ms == getValidMoves(state, m.from)
        IN  /\ Owner(state.pieces, m.from) = ai.aiPlayer
            /\ \E k \in DOMAIN ms :
                   /\ ms[k].to = m.to
                   /\ ms[k].captureSteps = m.captureSteps
                   /\ ms[k].captures = m.captures
            /\ (state = getInitialState /\ ai.depth = 1) =>
                   /\ m.from \in {getId(IF ai.aiPlayer = "black" THEN 0 ELSE ROWS - 1, c) :
                                     c \in 0..(COLS - 1)}
                   /\ Owner(state.pieces, m.to) = "empty"
                   /\ m.to \in Reach(state.pieces, m.from, TRUE)

\* getBestMove returned a move from the initial layout at depth 1.
C12_Witness ==
    /\ ai.pc = "returned"
    /\ ai.bestMove # noMove
    /\ state = getInitialState
    /\ ai.depth = 1

\* The largest (smallest) of a set of scores.
Extreme(isMaximizing, scores) ==
    IF isMaximizing THEN CHOOSE v \in scores : \A w \in scores : w <= v
    ELSE CHOOSE v \in scores : \A w \in scores : v <= w

\* The value of position st for `side` by minimax without pruning: the score
\* of a won position, of a position at depth 0 and of a position without
\* moves; else the largest value of the positions after the moves of `side`
\* (isMaximizing) or the smallest value of those after the moves of the
\* other side.  MovesValue is the same for a position whose moves are to be
\* searched in any case.
RECURSIVE PlainValue(_, _, _, _)
RECURSIVE MovesValue(_, _, _, _)
PlainValue(st, depth, isMaximizing, side) ==
    IF checkWinCondition(st) # null \/ depth = 0 THEN evaluate(st, side)
    ELSE MovesValue(st, depth, isMaximizing, side)

MovesValue(st, depth, isMaximizing, side) ==
    CHOOSE r \in
        { IF ms = <<>> THEN evaluate(st, side)
          ELSE CHOOSE x \in
                   { Extreme(isMaximizing, scores) :
                       scores \in { { PlainValue(c, depth - 1, ~isMaximizing, side) :
                                        c \in {simulateMove(st, ms[k]) : k \in DOMAIN ms} } } } : TRUE
          : ms \in {getAllMoves(st, IF isMaximizing THEN side ELSE Other(side))} } : TRUE

\* C13: for a depth >= 1 and the side to move, the score getBestMove holds
\* for each root move is the unpruned minimax value of the position after
\* it, minimising first, and the score of the move it returns is the
\* unpruned minimax value of the root (whose moves are searched whether or
\* not the root is a won position).
C13_PruningKeepsMinimaxValue ==
    (ai.depth >= 1 /\ ai.aiPlayer = state.currentPlayer) =>
        /\ (ai.pc = "searching" /\ Len(ai.stack) = 1 /\ top.i > 1) =>
               top.last = PlainValue(simulateMove(state, top.moves[top.i - 1]),
                                     ai.depth - 1, FALSE, ai.aiPlayer)
        /\ (ai.pc = "returned" /\ ai.bestMove # noMove) =>
               ai.bestScore = MovesValue(state, ai.depth, TRUE, ai.aiPlayer)

\* getBestMove returned a move from a search in which a loop broke off with
\* moves left unsearched.
C13_Witness ==
    /\ ai.pc = "returned"
    /\ ai.depth >= 1 /\ ai.aiPlayer = state.currentPlayer
    /\ ai.bestMove # noMove
    /\ ai.pruned

\* The root moves of a returned search, each with its score and with its
\* place k in generation order: pieces in position order, and for each
\* piece its destinations in getValidMoves' order.
ScoredMoves ==
    UNION { { [k |-> k, move |-> gen[k],
               score |-> ai.scores[CHOOSE j \in DOMAIN ai.searched :
                                      ai.searched[j] = gen[k]]] : k \in DOMAIN gen }
            : gen \in {getAllMoves(state, ai.aiPlayer)} }

MaximalScore(S) == {e \in S : \A f \in S : f.score <= e.score}

MostCaptures(S) ==
    {e \in S : \A f \in S : Len(f.move.captures) <= Len(e.move.captures)}

FirstGenerated(S) == CHOOSE e \in S : \A f \in S : e.k <= f.k

\* C14 as stated: the move returned is the first, in generation order, of
\* the root moves with the maximal score.
C14_FirstMaximalInGenerationOrder ==
    (ai.pc = "returned" /\ ai.bestMove # noMove) =>
        \A scored \in {ScoredMoves} :
            ai.bestMove = FirstGenerated(MaximalScore(scored)).move

\* C14, amended: the move returned is a function of the position, the depth
\* and the side: of the root moves with the maximal score, the one with the
\* most captures, and among those the first in generation order.
C14_MostCapturesThenGenerationOrder ==
    (ai.pc = "returned" /\ ai.bestMove # noMove) =>
        \A scored \in {ScoredMoves} :
            /\ {e.move : e \in scored} = Range(ai.searched)
            /\ ai.bestMove = FirstGenerated(MostCaptures(MaximalScore(scored))).move

\* A move was returned that is not the first of the maximal ones in
\* generation order: a later one captures more.
C14_Witness ==
    /\ ai.pc = "returned"
    /\ ai.bestMove # noMove
    /\ \E scored \in {ScoredMoves} :
           /\ ai.bestMove # FirstGenerated(MaximalScore(scored)).move
           /\ Cardinality(MostCaptures(MaximalScore(scored))) > 1

\* The moves of a call are in the order of descending capture count.
DescendingCaptures(ms) ==
    \A j, k \in DOMAIN ms : j < k => Len(ms[j].captures) >= Len(ms[k].captures)

\* C15: every call of the search, getBestMove and each minimax call alike,
\* goes through its moves in the order of descending capture count.
C15_DescendingCapturesAtEveryNode ==
    ai.pc = "searching" =>
        \A d \in DOMAIN ai.stack : DescendingCaptures(ai.stack[d].moves)

\* C16: the depth handed to a minimax call is never negative, and no call
\* is made for a position more than the caller's depth d plies below the
\* root.
C16_DepthNeverNegativeNorExceeded ==
    (ai.pc # "idle" /\ ai.called.ply > 0) =>
        /\ ai.called.depth >= 0
        /\ ai.called.ply <= ai.depth

-----------------------------------------------------------------------------
(* Order of enumeration (SpecOrder).                                       *)

Reverse(seq) == [k \in DOMAIN seq |-> seq[Len(seq) + 1 - k]]

\* The while loop of calculateRecursiveCaptures with the trigger nodes of
\* each pass taken in the reverse order.
RECURSIVE ReversedPasses(_, _, _)
ReversedPasses(w, activeNodes, currentPlayer) ==
    IF Len(activeNodes) > 0
    THEN LET w1 == processCenters(
                       [w EXCEPT !.nextBatch = <<>>, !.currentStepFlips = <<>>],
                       Reverse(activeNodes), 1, currentPlayer)
             w2 == [w1 EXCEPT !.steps = pushStep(@, w1.currentStepFlips)]
         IN  ReversedPasses(w2, w2.nextBatch, currentPlayer)
    ELSE w

\* The capture groups of the move from -> to, as sets, with the trigger
\* nodes of each pass taken in the reverse order.
ReversedGroups(st, from, to) ==
    LET w == ReversedPasses(
                 [pieces |-> virtualBoard(st.pieces, from, to),
                  totalCaptures |-> <<>>, steps |-> <<>>, processedNodes |-> {},
                  nextBatch |-> <<>>, currentStepFlips |-> <<>>],
                 <<to>>, st.currentPlayer)
    IN  [k \in DOMAIN w.steps |-> Range(w.steps[k])]

\* C20: the captured nodes of a move and their partition into groups are
\* the same whichever way round the trigger nodes of a pass are processed.
C20_CapturesIndependentOfTriggerOrder ==
    op = "getValidMoves" =>
        \A k \in DOMAIN moves :
            [g \in DOMAIN moves[k].captureSteps |-> Range(moves[k].captureSteps[g])]
                = ReversedGroups(state, fromId, moves[k].to)

-----------------------------------------------------------------------------
(* The session's staged playback                                           *)

\* C18: when a call of executeMove finalises, whatever node clicks, undos,
\* resets and other calls of executeMove ran during its delays, the page's
\* pieces are those simulateMove gives for the call's move on the gameState
\* the call was made from, and the side to move is the other side of that
\* gameState; the parts of the call before "Finalize Turn" (the move of the
\* piece and each capture step) leave the side to move as it is, so the
\* call flips it once.
C18_PlaybackEqualsAtomicMove ==
    /\ ui.event.kind = "finalise" =>
          /\ ui.gameState.pieces
                = simulateMove(ui.event.call.gameState, ui.event.call.move).pieces
          /\ ui.gameState.currentPlayer
                = simulateMove(ui.event.call.gameState, ui.event.call.move).currentPlayer
          /\ ui.gameState.currentPlayer # ui.event.call.gameState.currentPlayer
    /\ ui.event.kind \in {"start", "step"} =>
          ui.gameState.currentPlayer = ui.event.before.currentPlayer

\* A call with two capture steps or more has finalised after something else
\* had changed the page's pieces during its last delay.
C18_Witness ==
    /\ ui.event.kind = "finalise"
    /\ Len(ui.event.call.move.captureSteps) >= 2
    /\ ui.event.before.pieces # ui.event.call.currentPieces

-----------------------------------------------------------------------------
(* The engine and the caller's objects                                     *)

\* C19: after a call of getValidMoves, checkWinCondition, evaluate,
\* getBestMove or simulateMove, the caller's GameState, its pieces object
\* and every piece of it are the objects they were before the call (so the
\* pieces mapping, every piece's owner and the side to move are the same),
\* and the board's nodes are as board-config.ts built them.
C19_EngineLeavesInputAlone ==
    op # "init" =>
        /\ SubSeq(heap, 1, Len(heapOf(state))) = heapOf(state)
        /\ derefState(heap, 1) = state
        /\ nodes = connected

\* simulateMove has applied a move with captures: it made a pieces object,
\* a piece for each capture and a GameState.
C19_Witness ==
    /\ op = "simulateMove"
    /\ Len(move.captures) > 0
    /\ Len(heap) >= Len(heapOf(state)) + 2 + Len(move.captures)

-----------------------------------------------------------------------------
(* The end of the cascade                                                  *)

\* The working position of calculateRecursiveCaptures when its loop ends.
workingPieces(st, m) ==
    applyCaptures(virtualBoard(st.pieces, m.from, m.to), m.captures, 1, st.currentPlayer)

\* The trigger nodes of a move: its destination and the nodes it flipped.
Triggers(m) == {m.to} \cup Range(m.captures)

\* C21: in the working position at the end of capture resolution, no pick
\* pattern and no clamp pattern centred on the destination or on a node
\* flipped during the move has a target left.
C21_NoPatternLeftAtTriggers ==
    op = "getValidMoves" =>
        \A k \in DOMAIN moves : \A c \in Triggers(moves[k]) :
            /\ checkPick(workingPieces(state, moves[k]), c, state.currentPlayer) = <<>>
            /\ checkClamp(workingPieces(state, moves[k]), c, state.currentPlayer) = <<>>

\* The clamp patterns centred on c in position pieces: an opponent piece on
\* a and a piece of `me` on b right behind it.
ClampPatterns(pieces, c, me) ==
    {ab \in NeighborSet(c) \X DOMAIN nodes :
        /\ ab[2] \in NeighborSet(ab[1]) \ {c}
        /\ Colinear(c, ab[1], ab[2])
        /\ Owner(pieces, ab[1]) = Other(me)
        /\ Owner(pieces, ab[2]) = me}

\* The centres of the cascade w at which checkPick found targets.
picked(w, me) ==
    {w.centres[j] : j \in {i \in DOMAIN w.centres :
                              checkPick(w.boards[i], w.centres[i], me) # <<>>}}

\* C21 as it holds: no pick pattern centred on a trigger node has a target
\* left, and a clamp pattern centred on a trigger node has one left only
\* when pick targets were found at its centre or at the node of its far
\* piece when that node was the centre (pick keeps clamp from being looked
\* at there).
C21_NoPatternLeftButBehindAPick ==
    op = "getValidMoves" =>
        \A k \in DOMAIN moves : \A c \in Triggers(moves[k]) :
            /\ checkPick(workingPieces(state, moves[k]), c, state.currentPlayer) = <<>>
            /\ \A ab \in ClampPatterns(workingPieces(state, moves[k]), c, state.currentPlayer) :
                  {c, ab[2]} \cap picked(cascade(state, moves[k].from, moves[k].to),
                                         state.currentPlayer) # {}

\* A cascade of two groups or more has ended with no pattern left at all at
\* its trigger nodes, clamps found on the way.
C21_Witness ==
    /\ op = "getValidMoves"
    /\ \E k \in DOMAIN moves :
          /\ Len(moves[k].captureSteps) >= 2
          /\ picked(cascade(state, moves[k].from, moves[k].to), state.currentPlayer) = {}
          /\ \A c \in Triggers(moves[k]) :
                ClampPatterns(workingPieces(state, moves[k]), c, state.currentPlayer) = {}

\* C22: capture resolution ends, and when it has ended no node was
\* processed as a centre twice, no node was pushed to the frontier twice,
\* the while loop has made at most one pass more than the position has
\* opponent pieces, and the move has at most as many capture groups as the
\* position has opponent pieces.
C22_CascadeBounded ==
    op = "getValidMoves" =>
        \A k \in DOMAIN moves :
            \A w \in {cascade(state, moves[k].from, moves[k].to)} :
                /\ NoDuplicates(w.centres)
                /\ NoDuplicates(w.entered)
                /\ w.passes <= 1 + CountOf(state.pieces, Other(state.currentPlayer))
                /\ Len(moves[k].captureSteps)
                      <= CountOf(state.pieces, Other(state.currentPlayer))

\* A cascade of three passes: two groups, every flipped node a centre in
\* its turn.
C22_Witness ==
    /\ op = "getValidMoves"
    /\ \E k \in DOMAIN moves :
          \E w \in {cascade(state, moves[k].from, moves[k].to)} :
              /\ w.passes >= 3
              /\ Len(w.centres) = 1 + Len(moves[k].captures)

-----------------------------------------------------------------------------
(* Search (SpecSearch): the side getBestMove searches for.                 *)

\* Some piece of `side` has an empty node next to it.
HasEmptyNeighbour(st, side) ==
    \E n \in NodesOf(st.pieces, side) :
        \E b \in NeighborSet(n) : Owner(st.pieces, b) = "empty"

\* C23: with a depth >= 1, whenever some piece of the side passed to
\* getBestMove has an empty node next to it, getBestMove returns a move of
\* a piece of that side, be it the side to move of the position or not.
C23_SearchesTheSidePassed ==
    (ai.pc = "returned" /\ ai.depth >= 1 /\ HasEmptyNeighbour(state, ai.aiPlayer)) =>
        /\ ai.bestMove # noMove
        /\ Owner(state.pieces, ai.bestMove.from) = ai.aiPlayer

-----------------------------------------------------------------------------
(* The topology and the colinearity test                                   *)

\* The neighbours of cur, other than prevId, that areCollinear accepts as a
\* continuation of the step from prevId to cur.
Continuations(prevId, cur) ==
    {c \in NeighborSet(cur) \ {prevId} : areCollinear(prevId, cur, c)}

\* C24: on the board as built, for every node cur and every neighbour prevId
\* of it, at most one other neighbour of cur passes areCollinear with
\* (prevId, cur), and it lies beyond cur in the direction from prevId to
\* cur;
\* and two neighbours of a node that pass areCollinear through it lie on
\* opposite sides of it.
C24_OneContinuationAndForward ==
    \A cur \in DOMAIN nodes :
        /\ \A prevId \in NeighborSet(cur) :
              /\ Cardinality(Continuations(prevId, cur)) <= 1
              /\ \A c \in Continuations(prevId, cur) : Dot(prevId, cur, c) > 0
        /\ \A a, c \in NeighborSet(cur) :
              (a # c /\ areCollinear(a, cur, c)) => Opposite(a, cur, c)

\* getValidMoves has returned a destination two steps or more along a
\* line: the slide loop has taken a continuation.
C24_Witness ==
    /\ op = "getValidMoves"
    /\ \E k \in DOMAIN moves : moves[k].to \notin NeighborSet(fromId)

-----------------------------------------------------------------------------
(* The session: moves in progress                                          *)

\* C25: at most one call of executeMove is between its start and its
\* "Finalize Turn" at any time: no call starts, with or without capture
\* steps, while another one is in its delays, so a side does not move a
\* second piece before its move is finalised.
C25_OneMoveInProgress ==
    /\ Len(ui.calls) <= 1
    /\ (ui.event.kind = "finalise" /\ ui.event.call.move.captureSteps = <<>>) =>
          ui.calls = <<>>

\* The runAi invocations in flight: those that have not called executeMove
\* yet and those that wait for their executeMove to return.
inFlight == Len(ui.runs) + Cardinality({j \in DOMAIN ui.calls : ui.calls[j].ai})

\* runAi has just called executeMove.
AiMoveApplied ==
    /\ ui.event.call.ai
    /\ \/ ui.event.kind = "start"
       \/ ui.event.kind = "finalise" /\ ui.event.call.move.captureSteps = <<>>

\* C26: at most one runAi invocation is in flight, and when a runAi calls
\* executeMove the page shows the position that runAi was started for.
C26_RunAiNeverReentered ==
    /\ inFlight <= 1
    /\ AiMoveApplied =>
          /\ ui.event.before.pieces = ui.event.call.gameState.pieces
          /\ ui.event.before.currentPlayer = ui.event.call.gameState.currentPlayer

\* The snapshot executeMove takes of a gameState.
snapshotOf(gs) == [pieces |-> gs.pieces, currentPlayer |-> gs.currentPlayer]

\* executeMove was just called (by a click or by runAi).
MoveStarted ==
    \/ ui.event.kind = "start"
    \/ ui.event.kind = "finalise" /\ ui.event.call.move.captureSteps = <<>>

\* A step that is a click on the undo button in PvP with no move in its
\* delays.
UndoClicked ==
    /\ ui'.event.kind = "undo"
    /\ ui.gameMode = "PvP"
    /\ ui.calls = <<>>

\* What C28 says of a step.
UndoInvertsMove ==
    /\ MoveStarted' =>
          ui'.gameState.history = Append(ui.gameState.history, snapshotOf(ui.gameState))
    /\ UndoClicked /\ ui.done # noCall =>
          /\ ui'.gameState.pieces = ui.done.gameState.pieces
          /\ ui'.gameState.currentPlayer = ui.done.gameState.currentPlayer
          /\ ui'.gameState.history = ui.done.gameState.history
    /\ UndoClicked /\ ui.gameState.history # <<>> /\ ui'.gameState.history = <<>> =>
          /\ ui'.gameState.pieces = getInitialState.pieces
          /\ ui'.gameState.currentPlayer = "black"

\* C28: a move that is executed appends one snapshot of the pieces and the
\* side to move from before it; in PvP an undo after a completed move
\* restores the pieces and the side to move from before that move and
\* takes its snapshot off the history; when the undos have emptied the
\* history the initial pieces are back with black to move.
C28_UndoInvertsMove == [][UndoInvertsMove]_vars

\* What C27 says of a step: a move that finalises sets winner to
\* checkWinCondition of the pieces it commits, and a step from a won game
\* that is no reset and no undo leaves the pieces and the side to move.
WonGameFrozen ==
    /\ ui'.event.kind = "finalise" =>
          ui'.gameState.winner = checkWinCondition(ui'.gameState)
    /\ ui.gameState.winner # null /\ ui'.event.kind \notin {"undo", "reset"} =>
          /\ ui'.gameState.pieces = ui.gameState.pieces
          /\ ui'.gameState.currentPlayer = ui.gameState.currentPlayer

\* C27: the win check runs after every completed move, and a won game is
\* frozen until reset or undo.
C27_WonGameFrozen == [][WonGameFrozen]_vars

\* It is white's turn in PvE and there is no winner.
WhiteToMove ==
    /\ ui.gameMode = "PvE"
    /\ ui.gameState.currentPlayer = "white"
    /\ ui.gameState.winner = null

\* The computer's turn is over: a winner is set, or it is black's turn and
\* aiThinking is false.
TurnOver ==
    \/ ui.gameState.winner # null
    \/ ui.gameState.currentPlayer = "black" /\ ~ui.aiThinking

\* C29: in PvE, with no reset, undo or mode switch, white's turn with no
\* winner leads to the end of the computer's turn.
C29_AiTurnEnds == WhiteToMove ~> TurnOver

=============================================================================
